---- MODULE Spec2Model ----
(***************************************************************************)
(* Call-session control plane of the IVR orchestrator: TrunkStore,         *)
(* QueueManager, WebSocketService and ChannelManager, each as a state      *)
(* machine with one action per handler.                                    *)
(***************************************************************************)
EXTENDS Integers, Sequences, FiniteSets, TLC

VARIABLES
    \* ---- TrunkStore (src/src/store/trunk-store.ts)
    trunksByUserToken,  \* Map<normalized user_token, Trunk[]>
    trunkUsageCount,    \* Map<trunk_id, number>
    assignments,        \* Map<assignment_uuid, TrunkAssignment>
    ttlTimers,          \* armed setTimeout handles: timeout_id -> [assignmentId, due]
    nextUuid,           \* next value crypto.randomUUID() returns (never reused)
    trunkNow,           \* wall clock of the store, in ms
    trunkReturn,        \* the last TrunkStore call and its return value
    \* ---- QueueManager (src/unnamed/part_000)
    queues,             \* Map<trunkId, QueueElement[]>, an element being its job's id
    processing,         \* Set<trunkId>
    lastCallTime,       \* Map<trunkId, number>
    drainers,           \* the processQueue invocations that have not returned
    nextJob,            \* id of the next job submitted
    queueNow,           \* Date.now(), in ms
    enqueueReturn,      \* what the last enqueue call did: accepted or thrown
    settled,            \* job -> how the promise enqueue returned was settled
    accepted,           \* history: trunkId -> jobs in the order enqueue accepted them
    started,            \* history: trunkId -> jobs in the order they were started
    lastEndAt,          \* history: trunkId -> time the last job completed or failed
    createCalls,        \* createCall requests: job -> [assignment_uuid, status], status 0 until answered
    \* ---- WebSocketService (src/src/modules/websocket/websocket-service.ts)
    sockets,            \* every WebSocket the server was handed: id -> its state
    connections,        \* Map<callId, WebSocket>
    pendingMessages,    \* Map<callId, object>
    lastState,          \* Map<callId, string>
    activeConnections,  \* global.activeConnections
    closeTimers,        \* the setTimeout(closeConnection, 5000) calls armed, oldest first
    wssClosed,          \* the WebSocketServer was closed by shutdown
    nextSocket,         \* id of the next socket the server is handed
    nextMessage,        \* id of the next message object passed to sendToCallId
    wsReturn,           \* the last sendToCallId call of a caller and its return value
    wsDropped,          \* history: the messages overwritten in pendingMessages
    \* ---- ChannelManager (src/src/modules/ari/channel-manager.ts) of one call
    channel,            \* the manager's fields, its armed timers, the PBX side of
                        \* its channel and the outbound calls of its last handler
    activeChannels,     \* the channel ids ARIService.activeChannels maps
    channelEvent,       \* the event last delivered to the manager
    \* ---- ChannelManager handlers as they suspend and resume (channel-manager.ts)
    session,            \* the manager's fields, as in channel
    suspended,          \* the handler invocations suspended at an await
    nextHandler,        \* id of the next handler invocation
    \* ---- ARIEventHandler, ARIService and CallStore (src/unnamed/part_003, part_001, src/src/store/call-store.ts)
    processedPlaybacks, \* ARIEventHandler.processedPlaybacks
    completedChannels,  \* ARIService.completedChannels
    forgetTimers,       \* the setTimeout(... delete, 30000) calls armed
    managers,           \* the channel ids of ARIService.activeChannels
    calls,              \* CallStore.calls: uuid -> CallData
    nextCall,           \* the channel id the next origination makes
    ariNow,             \* Date.now(), in ms
    pbxLog,             \* history: the PBX events received and what each caused
    \* ---- ActionController and the /otp/validate endpoint (src/src/api/controllers/action-controller.ts, src/src/store/trunk-store.ts)
    steered,            \* the last ARIService.setChannelAction call and whether it found a manager
    pushed,             \* the messages the last handler step passed to sendToCallId
    validating,         \* the /otp/validate handlers suspended at await setChannelAction
    response,           \* the last response of GET /action/:status
    request,            \* history: the last HTTP request received
    nextRequest,        \* number of the next HTTP request
    lastWrite,          \* history: uuid -> time updateCall last changed the record
    sweepDue,           \* when the setInterval of CallStore next runs cleanupExpiredCalls
    secondRound,        \* history: the calls for which /action/gather1 came with Digits
    \* ---- ARIEventHandler connections to one PBX server (src/unnamed/part_003)
    pbxSockets,         \* how many WebSockets of connectToServer are in each state
    pbxConnection,      \* connections.has(serverId)
    reconnectAttempts,  \* reconnectAttempts.get(serverId) || 0
    reconnectTimers,    \* the due times of the setTimeout(connectToServer) calls armed, oldest first
    reconnectNow,       \* wall clock, in ms
    connects,           \* history: how often connectToServer was called
    lastConnectAt,      \* history: the time connectToServer was last called
    serverFailed,       \* history: how often server_failed was emitted
    retriesSinceOpen,   \* history: connectToServer calls by timers since the last open
    pbxStopped,         \* history: disconnectAll was called
    \* ---- ARIService: a call from origination to cleanup (src/unnamed/part_001)
    channelAnswerTimes, \* ARIService.channelAnswerTimes
    originating,        \* the originateCall invocations suspended at await createChannel
    answering,          \* the channel_entered_stasis handlers suspended at await client.answer
    pbxChannels         \* the PBX side: channel id -> dialing, stasis, ending or gone

trunkVars == <<trunksByUserToken, trunkUsageCount, assignments, ttlTimers,
               nextUuid, trunkNow, trunkReturn>>

queueVars == <<queues, processing, lastCallTime, drainers, nextJob, queueNow,
               enqueueReturn, settled, accepted, started, lastEndAt, createCalls>>

wsVars == <<sockets, connections, pendingMessages, lastState, activeConnections,
            closeTimers, wssClosed, nextSocket, nextMessage, wsReturn, wsDropped>>

channelVars == <<channel, activeChannels, channelEvent>>

sessionVars == <<session, suspended, nextHandler>>

ivrVars == <<steered, pushed, validating, response, request, nextRequest,
             lastWrite, sweepDue, secondRound>>

ariVars == <<processedPlaybacks, completedChannels, forgetTimers, managers, calls,
             nextCall, ariNow, pbxLog, steered, pushed, validating, response,
             request, nextRequest, lastWrite, sweepDue, secondRound>>

reconnectVars == <<pbxSockets, pbxConnection, reconnectAttempts, reconnectTimers,
                   reconnectNow, connects, lastConnectAt, serverFailed, retriesSinceOpen, pbxStopped>>

lifecycleVars == <<channelAnswerTimes, originating, answering, pbxChannels>>

vars == <<trunkVars, queueVars, wsVars, channelVars, sessionVars, ariVars, reconnectVars, lifecycleVars>>

nonTrunkVars == <<queueVars, wsVars, channelVars, sessionVars, ariVars, reconnectVars, lifecycleVars>>

nonQueueVars == <<trunkVars, wsVars, channelVars, sessionVars, ariVars, reconnectVars, lifecycleVars>>

nonWsVars == <<trunkVars, queueVars, channelVars, sessionVars, ariVars, reconnectVars, lifecycleVars>>

nonChannelVars == <<trunkVars, queueVars, wsVars, sessionVars, ariVars, reconnectVars, lifecycleVars>>

nonSessionVars == <<trunkVars, queueVars, wsVars, channelVars, ariVars, reconnectVars, lifecycleVars>>

nonAriVars == <<trunkVars, queueVars, wsVars, channelVars, sessionVars, reconnectVars, lifecycleVars>>

nonReconnectVars == <<trunkVars, queueVars, wsVars, channelVars, sessionVars, ariVars, lifecycleVars>>

nonLifecycleVars == <<trunkVars, queueVars, wsVars, channelVars, sessionVars, ariVars, reconnectVars>>

(***************************************************************************)
(* Maps (JavaScript Map) as functions with a finite domain.                *)
(***************************************************************************)
EmptyMap == [k \in {} |-> 0]

MapPut(m, k, v) == [x \in DOMAIN m \cup {k} |-> IF x = k THEN v ELSE m[x]]

MapDel(m, k) == [x \in DOMAIN m \ {k} |-> m[x]]

MapGetOr(m, k, d) == IF k \in DOMAIN m THEN m[k] ELSE d

Min(S) == CHOOSE x \in S : \A y \in S : x <= y

Max(S) == CHOOSE x \in S : \A y \in S : x >= y

(***************************************************************************)
(*                              TrunkStore                                 *)
(***************************************************************************)

\* Bounds of the exploration.
MaxAssignments == 2
MaxBurstAssignments == 5
MaxTrunkTicks == 2

\* Program constants.
MAX_TRUNK_USAGE == 4
VERIFIED_MAX_USAGE == 9
Infinity == -1
ASSIGNMENT_TTL_MS == 2 * 60 * 1000

\* The clock advances in steps of half a TTL.
TrunkTickMs == ASSIGNMENT_TTL_MS \div 2

\* A trunk_id is the sequence <<prefix up to and including "_", rest>>, a
\* user token a sequence of characters.
CustomA == [trunk_id |-> <<"custom_", "A">>, phone_number |-> "111", is_verified |-> FALSE]
TwilioB == [trunk_id |-> <<"twilio_", "B">>, phone_number |-> "333", is_verified |-> FALSE]

UserU == <<"u", "-", "1">>
UserV == <<"v", "2">>
UserTokens == {UserU, UserV}

\* The inventories the fetcher may deliver (TrunkService.getAllTrunks).
InventoryFull == << [user_token |-> UserU, trunks |-> <<CustomA, TwilioB>>] >>
InventoryOnlyA == << [user_token |-> UserU, trunks |-> <<CustomA>>],
                     [user_token |-> UserV, trunks |-> <<>>] >>
InventoryWithoutA == << [user_token |-> UserU, trunks |-> <<TwilioB>>] >>
Inventories == {InventoryFull, InventoryOnlyA, InventoryWithoutA}

\* userToken.replace(/-/g, '')
RECURSIVE RemoveDashes(_)
RemoveDashes(s) ==
    IF s = <<>> THEN <<>>
    ELSE IF Head(s) = "-" THEN RemoveDashes(Tail(s))
    ELSE <<Head(s)>> \o RemoveDashes(Tail(s))

StartsWith(id, prefix) == Len(id) >= 1 /\ id[1] = prefix

isCustomOrTelnyxTrunk(trunk) ==
    StartsWith(trunk.trunk_id, "telnyx_") \/ StartsWith(trunk.trunk_id, "custom_")

getMaxUsageForTrunk(trunk) ==
    IF isCustomOrTelnyxTrunk(trunk)
    THEN IF trunk.is_verified = TRUE THEN VERIFIED_MAX_USAGE ELSE MAX_TRUNK_USAGE
    ELSE Infinity

getTrunksForUser(userToken) ==
    MapGetOr(trunksByUserToken, RemoveDashes(userToken), <<>>)

\* A search that returns the last trunk below its cap instead of the first.
findLastAvailableTrunk(userToken) ==
    LET trunks == getTrunksForUser(userToken)
        ok == { i \in 1..Len(trunks) :
                  \/ getMaxUsageForTrunk(trunks[i]) = Infinity
                  \/ MapGetOr(trunkUsageCount, trunks[i].trunk_id, 0)
                        < getMaxUsageForTrunk(trunks[i]) }
    IN  IF ok = {} THEN <<>> ELSE <<trunks[Max(ok)]>>

\* for (const trunk of trunks) ... return trunk; return null.  The result is
\* <<trunk>> for a trunk and <<>> for null.
findAvailableTrunk(userToken) ==
    LET trunks == getTrunksForUser(userToken)
        ok == { i \in 1..Len(trunks) :
                  \/ getMaxUsageForTrunk(trunks[i]) = Infinity
                  \/ MapGetOr(trunkUsageCount, trunks[i].trunk_id, 0)
                        < getMaxUsageForTrunk(trunks[i]) }
    IN  IF ok = {} THEN <<>> ELSE <<trunks[Min(ok)]>>

\* ---- updateTrunkInventory(data)
\* trunksByUserToken after clear() and one set() per user group: the last
\* group of a normalized token wins.
InventoryByUser(data) ==
    LET keys == { RemoveDashes(data[i].user_token) : i \in 1..Len(data) }
        last(k) == Max({ i \in 1..Len(data) : RemoveDashes(data[i].user_token) = k })
    IN  [k \in keys |-> data[last(k)].trunks]

\* The <<group, position>> places of a trunk list, in iteration order.
TrunkPlaces(data) ==
    { <<i, j>> \in (1..Len(data)) \X (1..3) : j <= Len(data[i].trunks) }

CurrentTrunkIds(data) ==
    { data[p[1]].trunks[p[2]].trunk_id : p \in TrunkPlaces(data) }

\* trunkById: the last trunk of an id in iteration order wins.
TrunkById(data) ==
    LET places(t) == { p \in TrunkPlaces(data) : data[p[1]].trunks[p[2]].trunk_id = t }
        lastPlace(t) == CHOOSE p \in places(t) :
                           \A q \in places(t) :
                              q[1] < p[1] \/ (q[1] = p[1] /\ q[2] <= p[2])
    IN  [t \in CurrentTrunkIds(data) |->
            data[lastPlace(t)[1]].trunks[lastPlace(t)[2]]]

\* Counters initialised for new trunks, then counters of obsolete trunks deleted.
RefreshedUsage(data) ==
    [t \in CurrentTrunkIds(data) |-> MapGetOr(trunkUsageCount, t, 0)]

RefreshedAssignments(data) ==
    [a \in DOMAIN assignments |->
        IF assignments[a].trunk_id \in DOMAIN TrunkById(data)
        THEN [assignments[a] EXCEPT !.trunk_data = TrunkById(data)[assignments[a].trunk_id]]
        ELSE assignments[a]]

updateTrunkInventory(data) ==
    /\ trunksByUserToken' = InventoryByUser(data)
    /\ trunkUsageCount' = RefreshedUsage(data)
    /\ assignments' = RefreshedAssignments(data)
    /\ trunkReturn' = [op |-> "update", id |-> 0, success |-> TRUE]
    /\ UNCHANGED <<ttlTimers, nextUuid, trunkNow>>

\* The handle setTimeout returns: one that no armed timer and no assignment
\* holds (a handle nothing refers to any more cannot be told from a new one).
NewTimeoutId(held) == Min((1..(Cardinality(held) + 1)) \ held)

\* The handles an armed timer or an assignment other than `except` holds.
HeldTimeoutIds(armed, except) ==
    DOMAIN armed \cup { assignments[a].timeout_id : a \in DOMAIN assignments \ {except} }

\* ---- assignTrunk(userToken)
assignTrunk(userToken) ==
    LET available == findAvailableTrunk(userToken) IN
    IF available = <<>>
    THEN /\ trunkReturn' = [op |-> "assign", id |-> 0, success |-> FALSE,
                             userToken |-> userToken]
         /\ UNCHANGED <<trunksByUserToken, trunkUsageCount, assignments, ttlTimers,
                        nextUuid, trunkNow>>
    ELSE LET availableTrunk == available[1]
             currentUsage == MapGetOr(trunkUsageCount, availableTrunk.trunk_id, 0)
             timeout_id == NewTimeoutId(HeldTimeoutIds(ttlTimers, 0))
         IN
         /\ trunkUsageCount' = MapPut(trunkUsageCount, availableTrunk.trunk_id, currentUsage + 1)
         /\ ttlTimers' = MapPut(ttlTimers, timeout_id,
                                [assignmentId |-> nextUuid,
                                 due |-> trunkNow + ASSIGNMENT_TTL_MS])
         /\ assignments' = MapPut(assignments, nextUuid,
                                  [trunk_id |-> availableTrunk.trunk_id,
                                   trunk_data |-> availableTrunk,
                                   assigned_at |-> trunkNow,
                                   timeout_id |-> timeout_id])
         /\ nextUuid' = nextUuid + 1
         /\ trunkReturn' = [op |-> "assign", id |-> nextUuid, success |-> TRUE,
                             userToken |-> userToken]
         /\ UNCHANGED <<trunksByUserToken, trunkNow>>

\* A keepAlive that arms the new timer without clearing the old one: the
\* store C7 rules out.
keepAliveWithoutClear(assignmentUuid) ==
    IF assignmentUuid \notin DOMAIN assignments
    THEN /\ trunkReturn' = [op |-> "keepAlive", id |-> assignmentUuid, success |-> FALSE]
         /\ UNCHANGED <<trunksByUserToken, trunkUsageCount, assignments, ttlTimers,
                        nextUuid, trunkNow>>
    ELSE LET newTimeoutId == NewTimeoutId(HeldTimeoutIds(ttlTimers, 0)) IN
         /\ ttlTimers' = MapPut(ttlTimers, newTimeoutId,
                                [assignmentId |-> assignmentUuid,
                                 due |-> trunkNow + ASSIGNMENT_TTL_MS])
         /\ assignments' = [assignments EXCEPT ![assignmentUuid].timeout_id = newTimeoutId,
                                               ![assignmentUuid].assigned_at = trunkNow]
         /\ trunkReturn' = [op |-> "keepAlive", id |-> assignmentUuid, success |-> TRUE]
         /\ UNCHANGED <<trunksByUserToken, trunkUsageCount, nextUuid, trunkNow>>

\* ---- keepAlive(assignmentUuid)
keepAlive(assignmentUuid) ==
    IF assignmentUuid \notin DOMAIN assignments
    THEN /\ trunkReturn' = [op |-> "keepAlive", id |-> assignmentUuid, success |-> FALSE]
         /\ UNCHANGED <<trunksByUserToken, trunkUsageCount, assignments, ttlTimers,
                        nextUuid, trunkNow>>
    ELSE LET cleared == MapDel(ttlTimers, assignments[assignmentUuid].timeout_id)
             newTimeoutId == NewTimeoutId(HeldTimeoutIds(cleared, assignmentUuid))
         IN
         /\ ttlTimers' = MapPut(cleared, newTimeoutId,
                                [assignmentId |-> assignmentUuid,
                                 due |-> trunkNow + ASSIGNMENT_TTL_MS])
         /\ assignments' = [assignments EXCEPT ![assignmentUuid].timeout_id = newTimeoutId,
                                               ![assignmentUuid].assigned_at = trunkNow]
         /\ trunkReturn' = [op |-> "keepAlive", id |-> assignmentUuid, success |-> TRUE]
         /\ UNCHANGED <<trunksByUserToken, trunkUsageCount, nextUuid, trunkNow>>

\* A release that leaves the assignment in the map, so that a second release
\* of the same id finds it again: the store C6 rules out.
releaseAssignmentKeepingEntry(assignmentUuid) ==
    IF assignmentUuid \notin DOMAIN assignments
    THEN /\ trunkReturn' = [op |-> "release", id |-> assignmentUuid, success |-> FALSE]
         /\ UNCHANGED <<trunksByUserToken, trunkUsageCount, assignments, ttlTimers,
                        nextUuid, trunkNow>>
    ELSE LET assignment == assignments[assignmentUuid]
             currentUsage == MapGetOr(trunkUsageCount, assignment.trunk_id, 0)
         IN
         /\ ttlTimers' = MapDel(ttlTimers, assignment.timeout_id)
         /\ trunkUsageCount' = IF currentUsage > 0
                               THEN MapPut(trunkUsageCount, assignment.trunk_id, currentUsage - 1)
                               ELSE trunkUsageCount
         /\ trunkReturn' = [op |-> "release", id |-> assignmentUuid, success |-> TRUE]
         /\ UNCHANGED <<trunksByUserToken, assignments, nextUuid, trunkNow>>

\* ---- releaseAssignment(assignmentUuid), the public release
releaseAssignment(assignmentUuid) ==
    IF assignmentUuid \notin DOMAIN assignments
    THEN /\ trunkReturn' = [op |-> "release", id |-> assignmentUuid, success |-> FALSE]
         /\ UNCHANGED <<trunksByUserToken, trunkUsageCount, assignments, ttlTimers,
                        nextUuid, trunkNow>>
    ELSE LET assignment == assignments[assignmentUuid]
             currentUsage == MapGetOr(trunkUsageCount, assignment.trunk_id, 0)
         IN
         /\ ttlTimers' = MapDel(ttlTimers, assignment.timeout_id)
         /\ trunkUsageCount' = IF currentUsage > 0
                               THEN MapPut(trunkUsageCount, assignment.trunk_id, currentUsage - 1)
                               ELSE trunkUsageCount
         /\ assignments' = MapDel(assignments, assignmentUuid)
         /\ trunkReturn' = [op |-> "release", id |-> assignmentUuid, success |-> TRUE]
         /\ UNCHANGED <<trunksByUserToken, nextUuid, trunkNow>>

\* ---- releaseAssignmentById(assignmentId), run by the TTL timer; `armed` is
\* the set of armed timers once the firing timer has left it.
releaseAssignmentById(assignmentId, armed) ==
    IF assignmentId \notin DOMAIN assignments
    THEN /\ trunkReturn' = [op |-> "expire", id |-> assignmentId, success |-> FALSE]
         /\ ttlTimers' = armed
         /\ UNCHANGED <<trunksByUserToken, trunkUsageCount, assignments,
                        nextUuid, trunkNow>>
    ELSE LET assignment == assignments[assignmentId]
             currentUsage == MapGetOr(trunkUsageCount, assignment.trunk_id, 0)
         IN
         /\ ttlTimers' = MapDel(armed, assignment.timeout_id)
         /\ trunkUsageCount' = IF currentUsage > 0
                               THEN MapPut(trunkUsageCount, assignment.trunk_id, currentUsage - 1)
                               ELSE trunkUsageCount
         /\ assignments' = MapDel(assignments, assignmentId)
         /\ trunkReturn' = [op |-> "expire", id |-> assignmentId, success |-> TRUE]
         /\ UNCHANGED <<trunksByUserToken, nextUuid, trunkNow>>

\* ---- the actions of the store
UpdateInventory ==
    /\ \E data \in Inventories : updateTrunkInventory(data)
    /\ UNCHANGED nonTrunkVars

\* POST /api/trunks/assign; the exploration stops handing out ids at the bound.
Assign ==
    /\ nextUuid <= MaxAssignments
    /\ \E userToken \in UserTokens : assignTrunk(userToken)
    /\ UNCHANGED nonTrunkVars

AssignBurst ==
    /\ nextUuid <= MaxBurstAssignments
    /\ \E userToken \in UserTokens : assignTrunk(userToken)
    /\ UNCHANGED nonTrunkVars

\* Every id ever handed out, and one that never was.
KnownIds == 1..nextUuid

KeepAlive ==
    /\ \E id \in KnownIds : keepAlive(id)
    /\ UNCHANGED nonTrunkVars

Release ==
    /\ \E id \in KnownIds : releaseAssignment(id)
    /\ UNCHANGED nonTrunkVars

\* The setTimeout callback armed by assignTrunk / keepAlive fires once its
\* delay has elapsed.
TtlExpire ==
    \E t \in DOMAIN ttlTimers :
        /\ ttlTimers[t].due <= trunkNow
        /\ releaseAssignmentById(ttlTimers[t].assignmentId, MapDel(ttlTimers, t))
        /\ UNCHANGED nonTrunkVars

\* Time passes; a due timer fires before the clock moves past it.
TrunkTick ==
    /\ trunkNow + TrunkTickMs <= MaxTrunkTicks * TrunkTickMs
    /\ \A t \in DOMAIN ttlTimers : trunkNow + TrunkTickMs <= ttlTimers[t].due
    /\ trunkNow' = trunkNow + TrunkTickMs
    /\ trunkReturn' = [op |-> "tick", id |-> 0, success |-> TRUE]
    /\ UNCHANGED <<trunksByUserToken, trunkUsageCount, assignments, ttlTimers,
                   nextUuid>>
    /\ UNCHANGED nonTrunkVars

TrunkInit ==
    /\ trunksByUserToken = EmptyMap
    /\ trunkUsageCount = EmptyMap
    /\ assignments = EmptyMap
    /\ ttlTimers = EmptyMap
    /\ nextUuid = 1
    /\ trunkNow = 0
    /\ trunkReturn = [op |-> "init", id |-> 0, success |-> TRUE]

TrunkNext ==
    \/ UpdateInventory
    \/ Assign
    \/ KeepAlive
    \/ Release
    \/ TtlExpire
    \/ TrunkTick

(***************************************************************************)
(*                             QueueManager                                *)
(***************************************************************************)

\* Bounds of the exploration.
MaxJobs == 3
MaxQueueTicks == 5
MaxBurstJobs == 52

\* Program constants.
PROCESS_DELAY == 1100
QUEUE_LIMIT == 50

QueueTrunks == {"trunkA", "trunkB"}

QueueTickMs == PROCESS_DELAY \div 2

\* Date.now() when the process starts: later than PROCESS_DELAY after the epoch.
QueueEpoch == 2 * PROCESS_DELAY

NoTime == 0 - 1

\* The comparison turned round: a drainer that waits only when the spacing
\* has already elapsed (what C3 rules out).
NeedsWaitInverted(timeSinceLastCall) == timeSinceLastCall > PROCESS_DELAY

\* if (timeSinceLastCall < this.PROCESS_DELAY)
NeedsWait(timeSinceLastCall) == timeSinceLastCall < PROCESS_DELAY

\* const waitTime = this.PROCESS_DELAY - timeSinceLastCall
WaitTime(timeSinceLastCall) == PROCESS_DELAY - timeSinceLastCall

\* A drainer that calls the newest element instead of the oldest (what C4
\* rules out).
NewestElement(queue) == queue[Len(queue)]

\* const element = queue[0]
HeadElement(queue) == queue[1]

\* queue.push(queueElement)
PushElement(queue, element) == Append(queue, element)

\* What the processQueue invocation of a trunk is doing: "none" without one.
DrainerState(trunkId) ==
    IF \E d \in drainers : d.trunkId = trunkId
    THEN (CHOOSE d \in drainers : d.trunkId = trunkId).pc
    ELSE "none"

\* The top of processQueue's while loop for `trunkId`, whose queue is `queue`
\* and whose last call time is `lastTime`: the invocation returns (queue
\* empty), suspends in sleep(waitTime), or calls the head element, whose
\* callFunction starts the job at once.
LoopTop(trunkId, queue, lastTime) ==
    IF Len(queue) = 0
    THEN [trunkId |-> trunkId, pc |-> "returned", wakeAt |-> NoTime, element |-> 0]
    ELSE IF NeedsWait(queueNow - lastTime)
    THEN [trunkId |-> trunkId, pc |-> "sleeping",
          wakeAt |-> queueNow + WaitTime(queueNow - lastTime), element |-> 0]
    ELSE [trunkId |-> trunkId, pc |-> "running", wakeAt |-> NoTime,
          element |-> HeadElement(queue)]

\* A loop that leaves the trunk marked as processing when it returns (what
\* C33 rules out).
ContinueLoopKeepingProcessing(trunkId, queue, lastTime, others) ==
    LET next == LoopTop(trunkId, queue, lastTime) IN
    /\ drainers' = IF next.pc = "returned" THEN others ELSE others \cup {next}
    /\ processing' = processing \cup {trunkId}
    /\ started' = IF next.pc = "running"
                  THEN [started EXCEPT ![trunkId] = Append(@, next.element)]
                  ELSE started

\* The effect of one pass from the top of the loop on the drainer set, the
\* processing set and the start history; `others` are the other invocations.
ContinueLoop(trunkId, queue, lastTime, others) ==
    LET next == LoopTop(trunkId, queue, lastTime) IN
    /\ drainers' = IF next.pc = "returned" THEN others ELSE others \cup {next}
    /\ processing' = IF next.pc = "returned" THEN processing \ {trunkId}
                     ELSE processing \cup {trunkId}
    /\ started' = IF next.pc = "running"
                  THEN [started EXCEPT ![trunkId] = Append(@, next.element)]
                  ELSE started

\* A limit check that lets one job more in (what C14 rules out).
QueueFullAboveLimit(queue) == Len(queue) > QUEUE_LIMIT

\* if (queue.length >= this.QUEUE_LIMIT)
QueueFull(queue) == Len(queue) >= QUEUE_LIMIT

\* ---- enqueue(trunkId, callFunction), up to its first suspension
enqueue(trunkId) ==
    LET queue == MapGetOr(queues, trunkId, <<>>) IN
    IF QueueFull(queue)
    THEN /\ queues' = MapPut(queues, trunkId, queue)
         /\ enqueueReturn' = [job |-> nextJob, trunkId |-> trunkId, result |-> "queue_full"]
         /\ nextJob' = nextJob + 1
         /\ UNCHANGED <<processing, lastCallTime, drainers, queueNow, settled,
                        accepted, started, lastEndAt>>
    ELSE /\ queues' = MapPut(queues, trunkId, PushElement(queue, nextJob))
         /\ accepted' = [accepted EXCEPT ![trunkId] =
                              Append(@, [job |-> nextJob, drainer |-> DrainerState(trunkId)])]
         /\ enqueueReturn' = [job |-> nextJob, trunkId |-> trunkId, result |-> "accepted"]
         /\ nextJob' = nextJob + 1
         /\ IF trunkId \notin processing
            THEN \* processQueue(trunkId): processing.add, then the loop
                 ContinueLoop(trunkId, PushElement(queue, nextJob),
                              MapGetOr(lastCallTime, trunkId, 0), drainers)
            ELSE UNCHANGED <<processing, drainers, started>>
         /\ UNCHANGED <<lastCallTime, queueNow, settled, lastEndAt>>

\* ---- processQueue resumes from sleep(waitTime) and calls the head element
wake(d) ==
    LET queue == queues[d.trunkId] IN
    /\ drainers' = (drainers \ {d})
                     \cup {[d EXCEPT !.pc = "running", !.wakeAt = NoTime,
                                     !.element = HeadElement(queue)]}
    /\ started' = [started EXCEPT ![d.trunkId] = Append(@, HeadElement(queue))]
    /\ UNCHANGED <<queues, processing, lastCallTime, nextJob, queueNow,
                   enqueueReturn, settled, accepted, lastEndAt>>

\* A drainer that records the time of a job only when it succeeded (what
\* C15 rules out).
finishIgnoringFailureTime(d, outcome) ==
    LET queue == Tail(queues[d.trunkId])
        lastTime == IF outcome = "rejected"
                    THEN MapGetOr(lastCallTime, d.trunkId, 0) ELSE queueNow
    IN
    /\ settled' = MapPut(settled, d.element, outcome)
    /\ lastCallTime' = MapPut(lastCallTime, d.trunkId, lastTime)
    /\ lastEndAt' = [lastEndAt EXCEPT ![d.trunkId] = queueNow]
    /\ queues' = MapPut(queues, d.trunkId, queue)
    /\ ContinueLoop(d.trunkId, queue, lastTime, drainers \ {d})
    /\ UNCHANGED <<nextJob, queueNow, enqueueReturn, accepted>>

\* ---- the job of the called element completes (resolve) or fails (reject);
\* processQueue records the time, shifts the queue and loops
finish(d, outcome) ==
    LET queue == Tail(queues[d.trunkId]) IN
    /\ settled' = MapPut(settled, d.element, outcome)
    /\ lastCallTime' = MapPut(lastCallTime, d.trunkId, queueNow)
    /\ lastEndAt' = [lastEndAt EXCEPT ![d.trunkId] = queueNow]
    /\ queues' = MapPut(queues, d.trunkId, queue)
    /\ ContinueLoop(d.trunkId, queue, queueNow, drainers \ {d})
    /\ UNCHANGED <<nextJob, queueNow, enqueueReturn, accepted>>

\* ---- the actions of the queue manager
Enqueue ==
    /\ nextJob <= MaxJobs
    /\ \E trunkId \in QueueTrunks : enqueue(trunkId)
    /\ UNCHANGED createCalls
    /\ UNCHANGED nonQueueVars

\* Submissions to one trunk that arrive faster than its jobs complete.
EnqueueBurst ==
    /\ nextJob <= MaxBurstJobs
    /\ enqueue("trunkA")
    /\ UNCHANGED createCalls
    /\ UNCHANGED nonQueueVars

Wake ==
    /\ \E d \in drainers :
          /\ d.pc = "sleeping"
          /\ d.wakeAt <= queueNow
          /\ wake(d)
    /\ UNCHANGED createCalls
    /\ UNCHANGED nonQueueVars

JobDone ==
    /\ \E d \in drainers, outcome \in {"resolved", "rejected"} :
          /\ d.pc = "running"
          /\ finish(d, outcome)
    /\ UNCHANGED createCalls
    /\ UNCHANGED nonQueueVars

QueueTick ==
    /\ queueNow + QueueTickMs <= QueueEpoch + MaxQueueTicks * QueueTickMs
    /\ queueNow' = queueNow + QueueTickMs
    /\ UNCHANGED <<queues, processing, lastCallTime, drainers, nextJob,
                   enqueueReturn, settled, accepted, started, lastEndAt>>
    /\ UNCHANGED createCalls
    /\ UNCHANGED nonQueueVars

\* ---- sleep(waitTime): time passes until the setTimeout of the drainer that
\* wakes first is due
SleepElapses ==
    /\ \E d \in drainers :
          /\ d.pc = "sleeping"
          /\ d.wakeAt > queueNow
          /\ \A e \in drainers : e.pc = "sleeping" => d.wakeAt <= e.wakeAt
          /\ queueNow' = d.wakeAt
    /\ UNCHANGED <<queues, processing, lastCallTime, drainers, nextJob,
                   enqueueReturn, settled, accepted, started, lastEndAt>>
    /\ UNCHANGED createCalls
    /\ UNCHANGED nonQueueVars

QueueInit ==
    /\ queues = EmptyMap
    /\ processing = {}
    /\ lastCallTime = EmptyMap
    /\ drainers = {}
    /\ nextJob = 1
    /\ queueNow = QueueEpoch
    /\ enqueueReturn = [job |-> 0, trunkId |-> "", result |-> "none"]
    /\ settled = EmptyMap
    /\ accepted = [t \in QueueTrunks |-> <<>>]
    /\ started = [t \in QueueTrunks |-> <<>>]
    /\ lastEndAt = [t \in QueueTrunks |-> NoTime]
    /\ createCalls = EmptyMap

QueueNext ==
    \/ Enqueue
    \/ Wake
    \/ JobDone
    \/ QueueTick

(***************************************************************************)
(*                           WebSocketService                              *)
(***************************************************************************)

\* Bounds of the exploration.
MaxSockets == 3
MaxMessages == 2
MaxCloseTimers == 1

CallIds == {"call1"}

\* req.url as the list of its query parameters; NoUrl is a request without url.
NoUrl == <<[key |-> "", value |-> ""]>>
RequestUrls ==
    { <<[key |-> "callId", value |-> c]>> : c \in CallIds }
        \cup { NoUrl, <<>>, <<[key |-> "token", value |-> "x"]>> }

\* new URLSearchParams(url.split('?')[1]).get('callId'); "" stands for null.
extractCallId(url) ==
    IF url = NoUrl THEN ""
    ELSE LET hits == { i \in 1..Len(url) : url[i].key = "callId" }
         IN  IF hits = {} THEN "" ELSE url[Min(hits)].value

IsOpen(ws) == ws \in DOMAIN sockets /\ sockets[ws].readyState = "OPEN"

\* ws.close(): an open socket starts the closing handshake.
ClosedByServer(socks, ws) ==
    IF socks[ws].readyState = "OPEN"
    THEN [socks EXCEPT ![ws].readyState = "CLOSING"]
    ELSE socks

\* A sendToCallId that keeps the message already buffered instead of
\* replacing it (what C9 rules out).
sendToCallIdKeepingOldest(socks, conns, pending, callId, message) ==
    IF callId \in DOMAIN conns /\ socks[conns[callId]].readyState = "OPEN"
    THEN [sockets |-> [socks EXCEPT ![conns[callId]].received = Append(@, message)],
          pending |-> pending,
          sent |-> TRUE]
    ELSE [sockets |-> socks,
          pending |-> IF callId \in DOMAIN pending THEN pending
                      ELSE MapPut(pending, callId, message),
          sent |-> FALSE]

\* ---- sendToCallId(callId, message) on the sockets `socks` and the buffer
\* `pending`: the sockets, the buffer and the return value afterwards.
sendToCallId(socks, conns, pending, callId, message) ==
    IF callId \in DOMAIN conns /\ socks[conns[callId]].readyState = "OPEN"
    THEN [sockets |-> [socks EXCEPT ![conns[callId]].received = Append(@, message)],
          pending |-> pending,
          sent |-> TRUE]
    ELSE [sockets |-> socks,
          pending |-> MapPut(pending, callId, message),
          sent |-> FALSE]

\* The messages a sendToCallId call overwrote in the buffer.
Overwritten(pending, callId, after) ==
    IF callId \in DOMAIN pending /\ callId \in DOMAIN after /\ after[callId] # pending[callId]
    THEN {pending[callId]}
    ELSE {}

\* ---- handleExistingConnection(callId, ws): TRUE when the new socket may go on
handleExistingConnection(callId) ==
    ~(callId \in DOMAIN connections /\ IsOpen(connections[callId]))

\* ---- handleConnection(ws, req)
handleConnection(url) ==
    LET ws == nextSocket
        callId == extractCallId(url)
        fresh == MapPut(sockets, ws, [callId |-> callId, readyState |-> "OPEN",
                                      handlers |-> FALSE, received |-> <<>>])
    IN
    /\ nextSocket' = nextSocket + 1
    /\ IF callId = "" \/ ~handleExistingConnection(callId)
       THEN /\ sockets' = ClosedByServer(fresh, ws)
            /\ UNCHANGED <<connections, pendingMessages, activeConnections>>
       ELSE LET \* setupConnection
                conns == MapPut(connections, callId, ws)
                \* handlePendingMessages
                flush == sendToCallId(fresh, conns, pendingMessages, callId,
                                      MapGetOr(pendingMessages, callId, 0))
            IN
            /\ connections' = conns
            /\ activeConnections' = activeConnections \cup {callId}
            /\ IF callId \in DOMAIN pendingMessages
               THEN /\ sockets' = [flush.sockets EXCEPT ![ws].handlers = TRUE]
                    /\ pendingMessages' = MapDel(flush.pending, callId)
               ELSE /\ sockets' = [fresh EXCEPT ![ws].handlers = TRUE]
                    /\ UNCHANGED pendingMessages
    /\ UNCHANGED <<lastState, closeTimers, wssClosed, nextMessage, wsReturn, wsDropped>>

\* ---- handleClose(callId): the maps afterwards
handleClose(callId) ==
    /\ connections' = MapDel(connections, callId)
    /\ activeConnections' = activeConnections \ {callId}
    /\ lastState' = MapDel(lastState, callId)

\* ---- the 'close' event of a socket: the handshake it was in has ended
closeEvent(ws) ==
    /\ sockets' = [sockets EXCEPT ![ws].readyState = "CLOSED"]
    /\ IF sockets[ws].handlers
       THEN handleClose(sockets[ws].callId)
       ELSE UNCHANGED <<connections, activeConnections, lastState>>
    /\ UNCHANGED <<pendingMessages, closeTimers, wssClosed, nextSocket, nextMessage,
                   wsReturn, wsDropped>>

\* ---- the peer closes its end (or the connection drops)
peerClose(ws) ==
    /\ sockets' = [sockets EXCEPT ![ws].readyState = "CLOSING"]
    /\ UNCHANGED <<connections, pendingMessages, lastState, activeConnections,
                   closeTimers, wssClosed, nextSocket, nextMessage, wsReturn, wsDropped>>

\* ---- a caller of the service sends: sendToCallId(callId, message)
send(callId) ==
    LET r == sendToCallId(sockets, connections, pendingMessages, callId, nextMessage) IN
    /\ sockets' = r.sockets
    /\ pendingMessages' = r.pending
    /\ wsReturn' = [callId |-> callId, message |-> nextMessage, sent |-> r.sent]
    /\ wsDropped' = wsDropped \cup Overwritten(pendingMessages, callId, r.pending)
    /\ nextMessage' = nextMessage + 1
    /\ UNCHANGED <<connections, lastState, activeConnections, wssClosed, nextSocket>>

\* ---- sendCallStatus(callId, status, data)
sendCallStatus(callId, status) ==
    /\ send(callId)
    /\ IF status \in {"completed", "failed", "hangup"}
       THEN /\ Len(closeTimers) < MaxCloseTimers
            /\ closeTimers' = Append(closeTimers, callId)
       ELSE UNCHANGED closeTimers

\* ---- handleMessage(callId, ws, message): 'message' event of an accepted socket
handleMessage(ws, parses) ==
    LET callId == sockets[ws].callId
        r == sendToCallId(sockets, connections, pendingMessages, callId, nextMessage)
    IN
    IF parses
    THEN /\ lastState' = MapPut(lastState, callId, "unknown")
         /\ sockets' = r.sockets
         /\ pendingMessages' = r.pending
         /\ wsReturn' = [callId |-> callId, message |-> nextMessage, sent |-> r.sent]
         /\ wsDropped' = wsDropped \cup Overwritten(pendingMessages, callId, r.pending)
         /\ nextMessage' = nextMessage + 1
         /\ UNCHANGED <<connections, activeConnections, closeTimers, wssClosed, nextSocket>>
    ELSE UNCHANGED wsVars

\* ---- closeConnection(callId)
closeConnection(callId) ==
    IF callId \in DOMAIN connections
    THEN /\ sockets' = ClosedByServer(sockets, connections[callId])
         /\ handleClose(callId)
    ELSE UNCHANGED <<sockets, connections, activeConnections, lastState>>

\* ---- shutdown()
shutdown ==
    /\ sockets' = [ws \in DOMAIN sockets |->
                     IF \E c \in DOMAIN connections : connections[c] = ws
                     THEN ClosedByServer(sockets, ws)[ws]
                     ELSE sockets[ws]]
    /\ connections' = EmptyMap
    /\ pendingMessages' = EmptyMap
    /\ lastState' = EmptyMap
    /\ activeConnections' = {}
    /\ wssClosed' = TRUE
    /\ UNCHANGED <<closeTimers, nextSocket, nextMessage, wsReturn, wsDropped>>

\* ---- the actions of the service
Connect ==
    /\ ~wssClosed
    /\ nextSocket <= MaxSockets
    /\ \E url \in RequestUrls : handleConnection(url)
    /\ UNCHANGED nonWsVars

PeerClose ==
    /\ \E ws \in DOMAIN sockets : sockets[ws].readyState = "OPEN" /\ peerClose(ws)
    /\ UNCHANGED nonWsVars

CloseEvent ==
    /\ \E ws \in DOMAIN sockets : sockets[ws].readyState = "CLOSING" /\ closeEvent(ws)
    /\ UNCHANGED nonWsVars

Send ==
    /\ nextMessage <= MaxMessages
    /\ \E callId \in CallIds : send(callId) /\ UNCHANGED closeTimers
    /\ UNCHANGED nonWsVars

SendCallStatus ==
    /\ nextMessage <= MaxMessages
    /\ \E callId \in CallIds, status \in {"error", "completed"} :
          sendCallStatus(callId, status)
    /\ UNCHANGED nonWsVars

ClientMessage ==
    /\ nextMessage <= MaxMessages
    /\ \E ws \in DOMAIN sockets, parses \in BOOLEAN :
          /\ sockets[ws].readyState = "OPEN"
          /\ sockets[ws].handlers
          /\ handleMessage(ws, parses)
    /\ UNCHANGED nonWsVars

CloseTimerFires ==
    /\ closeTimers # <<>>
    /\ closeConnection(Head(closeTimers))
    /\ closeTimers' = Tail(closeTimers)
    /\ UNCHANGED <<pendingMessages, wssClosed, nextSocket, nextMessage, wsReturn, wsDropped>>
    /\ UNCHANGED nonWsVars

Shutdown ==
    /\ ~wssClosed
    /\ shutdown
    /\ UNCHANGED nonWsVars

WsInit ==
    /\ sockets = EmptyMap
    /\ connections = EmptyMap
    /\ pendingMessages = EmptyMap
    /\ lastState = EmptyMap
    /\ activeConnections = {}
    /\ closeTimers = <<>>
    /\ wssClosed = FALSE
    /\ nextSocket = 1
    /\ nextMessage = 1
    /\ wsReturn = [callId |-> "", message |-> 0, sent |-> FALSE]
    /\ wsDropped = {}

WsNext ==
    \/ Connect
    \/ PeerClose
    \/ CloseEvent
    \/ Send
    \/ SendCallStatus
    \/ ClientMessage
    \/ CloseTimerFires
    \/ Shutdown

(***************************************************************************)
(*                            ChannelManager                               *)
(***************************************************************************)

\* Bounds of the exploration.
MaxDigits == 2
MaxPlaybacks == 2

ChannelId == "chan1"

\* A URL is its path and whether its query string carries 'uuid='; NoData is
\* an undefined or empty string.
NoData == [path |-> "", uuid |-> FALSE]
AnswerUrl == [path |-> "/answer", uuid |-> FALSE]
GatherUrl == [path |-> "/gather", uuid |-> TRUE]
CompletedUrl == [path |-> "/completed", uuid |-> TRUE]
ConfirmUrl == [path |-> "/confirm", uuid |-> FALSE]
AudioUrl == [path |-> "prompt.wav", uuid |-> FALSE]

NoAttributes == [timeout |-> 0, numDigits |-> 0, finishOnKey |-> "", action |-> NoData]

\* The timeout attribute, in seconds, of a confirm prompt and of a gather: the
\* least one getRandomizedTimeout draws.
AnswerTimeout == 10

\* The actions parseXMLToActions makes of the verbs of a script.
PlayVerb(timeout) ==
    [name |-> "play", data |-> AudioUrl,
     attributes |-> [NoAttributes EXCEPT !.timeout = timeout]]
GatherVerb(numDigits, finishOnKey) ==
    [name |-> "gather", data |-> NoData,
     attributes |-> [NoAttributes EXCEPT !.timeout = AnswerTimeout,
                                         !.numDigits = numDigits,
                                         !.finishOnKey = finishOnKey,
                                         !.action = GatherUrl]]
RedirectVerb == [name |-> "redirect", data |-> CompletedUrl, attributes |-> NoAttributes]
HangupVerb == [name |-> "hangup", data |-> NoData, attributes |-> NoAttributes]

\* The scripts of the action server (ActionController.generateXMLResponse):
\* prompt and fixed-length gather, prompt and gather ended by a key, the
\* confirm prompt with its timeout, the final or error prompt; and a script
\* that hangs up.
PromptScripts ==
    { <<PlayVerb(0), GatherVerb(2, "")>>,
      <<PlayVerb(0), GatherVerb(0, "#")>>,
      <<PlayVerb(AnswerTimeout)>>,
      <<PlayVerb(0)>>,
      <<PlayVerb(0), HangupVerb>> }

\* A request that carries Digits may also be answered with a redirect
\* (ActionController.handleAction, status gather1).
Scripts(digits) ==
    IF digits # <<>> THEN PromptScripts \cup {<<RedirectVerb>>} ELSE PromptScripts

Digits == {"1", "#"}

\* An outbound call of the manager: a PBX call or a fetch of an action script,
\* or a setTimeout.
Outbound(call, playbackId, url, digits) ==
    [call |-> call, playbackId |-> playbackId, url |-> url, digits |-> digits]

Logged(c, entry) == [c EXCEPT !.log = Append(@, entry)]

\* ---- timers
\* The handle setTimeout returns: one that no armed timer and no field holds.
HeldTimers(c) == DOMAIN c.timers \cup {c.timeoutHandle, c.gatherInstance.timeout}

NewTimer(c) == Min((1..(Cardinality(HeldTimers(c)) + 1)) \ HeldTimers(c))

\* if (this.timeoutHandle) { clearTimeout(this.timeoutHandle); this.timeoutHandle = undefined }
ClearTimeoutHandle(c) ==
    IF c.timeoutHandle # 0
    THEN [c EXCEPT !.timers = MapDel(@, c.timeoutHandle), !.timeoutHandle = 0]
    ELSE c

\* if (this.gatherInstance.timeout) { clearTimeout(...); this.gatherInstance.timeout = undefined }
ClearGatherTimeout(c) ==
    IF c.gatherInstance.timeout # 0
    THEN [c EXCEPT !.timers = MapDel(@, c.gatherInstance.timeout),
                   !.gatherInstance.timeout = 0]
    ELSE c

\* this.timeoutHandle = setTimeout(callback, ...)
SetTimeoutHandle(c, callback) ==
    Logged([c EXCEPT !.timers = MapPut(@, NewTimer(c), callback),
                     !.timeoutHandle = NewTimer(c)],
           Outbound("setTimeout", 0, NoData, <<>>))

\* this.gatherInstance.timeout = setTimeout(gather timeout callback, ...)
SetGatherTimeout(c) ==
    Logged([c EXCEPT !.timers = MapPut(@, NewTimer(c), "gatherTimeout"),
                     !.gatherInstance.timeout = NewTimer(c)],
           Outbound("setTimeout", 0, NoData, <<>>))

\* ---- destroy()
destroy(c) ==
    IF c.isDestroyed
    THEN c
    ELSE LET cleared == ClearGatherTimeout(ClearTimeoutHandle([c EXCEPT !.isDestroyed = TRUE]))
         IN  Logged([cleared EXCEPT !.isPlaying = FALSE, !.playbackId = 0,
                                    !.channelUp = FALSE],
                    Outbound("hangup", 0, NoData, <<>>))

\* ---- addUuidToUrl(actionUrl)
addUuidToUrl(actionUrl) == [actionUrl EXCEPT !.uuid = TRUE]

\* finalUrl.includes('/completed') ... : the status the URL stands for
StatusOfUrl(finalUrl, current) ==
    IF finalUrl.path = "/completed" THEN "completed"
    ELSE IF finalUrl.path = "/invalid" THEN "invalid"
    ELSE IF finalUrl.path = "/gather" THEN "gather"
    ELSE IF finalUrl.path = "/answer" THEN "answer"
    ELSE current

\* ---- getActions(actionUrl, params): the fetch answers with a script, with
\* a document without Response, or fails.
getActions(c, actionUrl, digits) ==
    LET finalUrl == IF actionUrl.uuid THEN actionUrl ELSE addUuidToUrl(actionUrl)
        fetched == Logged([c EXCEPT !.currentActionStatus = StatusOfUrl(finalUrl, @)],
                          Outbound("fetch", 0, finalUrl, digits))
    IN  { [fetched EXCEPT !.remainingActions = script] : script \in Scripts(digits) }
            \cup {fetched}
            \cup {destroy(fetched)}

\* ---- gather(attrib)
gather(c, attrib) ==
    LET g == [c EXCEPT !.gatherInstance.running = TRUE,
                       !.gatherInstance.numDigits =
                            IF attrib.numDigits # 0 THEN attrib.numDigits ELSE 1,
                       !.gatherInstance.finishOnKey = attrib.finishOnKey,
                       !.gatherInstance.action = attrib.action,
                       !.gatherInstance.timeoutSeconds =
                            IF attrib.timeout # 0 THEN attrib.timeout ELSE 5,
                       !.gatherInstance.digits = <<>>]
    IN  IF g.isPlaying THEN ClearGatherTimeout(g) ELSE SetGatherTimeout(g)

\* The playbackId play() makes: one the manager and the PBX do not hold.
NewPlaybackId(c) ==
    Min((1..(Cardinality(c.playbacks) + 2)) \ (c.playbacks \cup {c.playbackId}))

\* play() up to the PBX call
PlayCalled(c) ==
    Logged([c EXCEPT !.playbackId = NewPlaybackId(c), !.isPlaying = TRUE],
           Outbound("play", NewPlaybackId(c), AudioUrl, <<>>))

\* play() after the PBX accepted the call
PlayAccepted(c) ==
    LET playing == [c EXCEPT !.playbacks = @ \cup {c.playbackId}] IN
    IF playing.currentTimeout > 0
    THEN SetTimeoutHandle(playing, "handleTimeout")
    ELSE playing

\* ---- runAction() and setAction(url, params)
RECURSIVE runAction(_)
RECURSIVE setAction(_, _)
runAction(c) ==
    IF c.remainingActions = <<>>
    THEN {c}
    ELSE LET action == Head(c.remainingActions)
             shifted == [ClearTimeoutHandle(c) EXCEPT
                            !.remainingActions = Tail(@),
                            !.currentTimeout = action.attributes.timeout]
         IN
         CASE action.name = "play" ->
                IF action.data = NoData
                THEN runAction(shifted)
                ELSE LET called == PlayCalled(shifted)
                         \* api.play resolves on a channel that is up and throws
                         \* on one that is gone: the catch of play() runs runAction
                         played == IF called.channelUp
                                   THEN {PlayAccepted(called)}
                                   ELSE runAction(called)
                     IN  UNION { runAction(p) : p \in played }
           [] action.name = "gather" -> {gather(shifted, action.attributes)}
           [] action.name = "redirect" ->
                IF action.data = NoData THEN {shifted}
                ELSE setAction(shifted, action.data)
           [] action.name = "hangup" ->
                {destroy(Logged([shifted EXCEPT !.channelUp = FALSE],
                                Outbound("hangup", 0, NoData, <<>>)))}
           [] OTHER -> runAction(shifted)

setAction(c, url) ==
    UNION { runAction(g) : g \in getActions(ClearTimeoutHandle(c), url, <<>>) }

\* ---- start()
start(c) ==
    IF c.call.action_url # NoData
    THEN UNION { runAction(g) : g \in getActions(c, c.call.action_url, <<>>) }
    ELSE {c}

\* A gather that has just stopped running: its timeout is cleared and, with an
\* action URL, the next script is fetched with the digits and run.
GatherCompleted(c) ==
    LET done == ClearGatherTimeout([c EXCEPT !.gatherInstance.running = FALSE]) IN
    IF done.gatherInstance.action # NoData
    THEN UNION { runAction(g) :
                   g \in getActions(done, done.gatherInstance.action,
                                    done.gatherInstance.digits) }
    ELSE {done}

\* A barge-in that stops the prompt only for a digit a gather is waiting for.
bargeInWhenGathering(c) ==
    IF c.isPlaying /\ c.playbackId # 0 /\ c.gatherInstance.running
    THEN [Logged(c, Outbound("stopPlayback", c.playbackId, NoData, <<>>))
             EXCEPT !.isPlaying = FALSE, !.playbackId = 0]
    ELSE c

\* onDTMFReceived: the barge-in; the try and the catch of stopPlayback end alike
bargeIn(c) ==
    IF c.isPlaying /\ c.playbackId # 0
    THEN [Logged(c, Outbound("stopPlayback", c.playbackId, NoData, <<>>))
             EXCEPT !.isPlaying = FALSE, !.playbackId = 0]
    ELSE c

\* A length test that also ends a gather that has a finishOnKey.
reachedNumDigitsInAnyMode(g, digits) == Len(digits) >= g.numDigits

\* !this.gatherInstance.finishOnKey && this.gatherInstance.digits.length >= numDigits
reachedNumDigits(g, digits) == g.finishOnKey = "" /\ Len(digits) >= g.numDigits

\* ---- onDTMFReceived(digit)
onDTMFReceived(c, digit) ==
    LET stopped == bargeIn(c)
        cleared == ClearTimeoutHandle(stopped)
        g == cleared.gatherInstance
    IN
    IF ~g.running THEN {cleared}
    ELSE IF g.finishOnKey # "" /\ digit = g.finishOnKey THEN GatherCompleted(cleared)
    ELSE LET added == [cleared EXCEPT !.gatherInstance.digits = Append(@, digit)] IN
         IF reachedNumDigits(g, added.gatherInstance.digits)
         THEN GatherCompleted(added)
         ELSE {added}

\* ---- onPlaybackFinished(playbackId)
onPlaybackFinished(c, playbackId) ==
    IF playbackId # 0 /\ c.playbackId # 0 /\ playbackId # c.playbackId
    THEN {c}
    ELSE LET cleared == ClearTimeoutHandle([c EXCEPT !.isPlaying = FALSE]) IN
         IF cleared.pendingAction # NoData
         THEN UNION { runAction(g) :
                        g \in getActions([cleared EXCEPT !.pendingAction = NoData],
                                         cleared.pendingAction, <<>>) }
         ELSE IF cleared.gatherInstance.running
         THEN {SetGatherTimeout(ClearGatherTimeout(cleared))}
         ELSE IF cleared.remainingActions = <<>>
         THEN {SetTimeoutHandle(cleared, "destroy")}
         ELSE runAction(cleared)

\* ---- handleTimeout()
handleTimeout(c) ==
    IF c.pendingAction # NoData
    THEN { [r EXCEPT !.pendingAction = NoData] :
             r \in setAction(c, c.pendingAction) }
    ELSE runAction(c)

\* ---- the callback of an armed timer
TimerCallback(c, callback) ==
    CASE callback = "handleTimeout" -> handleTimeout(c)
      [] callback = "gatherTimeout" ->
            IF c.gatherInstance.running
            THEN {destroy([c EXCEPT !.gatherInstance.running = FALSE])}
            ELSE {c}
      [] callback = "destroy" -> {destroy(c)}

\* ---- the actions of the channel: an event is delivered to the manager
\* registered for the channel and its handler runs
Delivered(c) == [c EXCEPT !.log = <<>>]

WithinChannelBounds(c) ==
    /\ Cardinality(c.playbacks) <= MaxPlaybacks
    /\ Len(c.gatherInstance.digits) <= MaxDigits

Handled(event, results) ==
    /\ channel' \in results
    /\ WithinChannelBounds(channel')
    /\ channelEvent' = event
    /\ UNCHANGED activeChannels

\* channel_entered_stasis: the channel is answered and the IVR started
StasisStart ==
    /\ ChannelId \in activeChannels
    /\ channelEvent.type = "originate"
    /\ channel.channelUp
    /\ Handled([type |-> "start"], start(Delivered(channel)))
    /\ UNCHANGED nonChannelVars

DtmfReceived ==
    /\ ChannelId \in activeChannels
    /\ channelEvent.type # "originate"
    /\ \E digit \in Digits :
          Handled([type |-> "dtmf", digit |-> digit],
                  onDTMFReceived(Delivered(channel), digit))
    /\ UNCHANGED nonChannelVars

\* PlaybackFinished of a playback the PBX started; without a registered
\* manager the event is ignored.
PlaybackFinished ==
    /\ \E playbackId \in channel.playbacks :
          LET reported == [Delivered(channel) EXCEPT !.playbacks = @ \ {playbackId}] IN
          Handled([type |-> "playback_finished", playbackId |-> playbackId],
                  IF ChannelId \in activeChannels
                  THEN onPlaybackFinished(reported, playbackId)
                  ELSE {reported})
    /\ UNCHANGED nonChannelVars

\* POST /api/calls/:id/action -> setChannelAction -> setAction(url)
SetChannelAction ==
    /\ ChannelId \in activeChannels
    /\ channelEvent.type # "originate"
    /\ Handled([type |-> "set_action"],
               setAction(Delivered(channel), ConfirmUrl))
    /\ UNCHANGED nonChannelVars

TimerFires ==
    /\ \E t \in DOMAIN channel.timers :
          Handled([type |-> "timer", callback |-> channel.timers[t]],
                  TimerCallback([Delivered(channel) EXCEPT !.timers = MapDel(@, t)],
                                channel.timers[t]))
    /\ UNCHANGED nonChannelVars

\* hangupCall(channelId): PBX hangup, destroy, and the manager is unregistered
HangupCall ==
    /\ ChannelId \in activeChannels
    /\ channel' = destroy(Logged([Delivered(channel) EXCEPT !.channelUp = FALSE],
                                 Outbound("hangup", 0, NoData, <<>>)))
    /\ activeChannels' = activeChannels \ {ChannelId}
    /\ channelEvent' = [type |-> "hangup_call"]
    /\ UNCHANGED nonChannelVars

\* The callee hangs up: the PBX channel is gone, its event not yet handled.
RemoteHangup ==
    /\ channel.channelUp
    /\ channel' = [channel EXCEPT !.channelUp = FALSE]
    /\ UNCHANGED <<activeChannels, channelEvent>>
    /\ UNCHANGED nonChannelVars

\* channel_hangup: cleanupCall unregisters the manager without destroying it
ChannelHangup ==
    /\ ChannelId \in activeChannels
    /\ ~channel.channelUp
    /\ channel' = Delivered(channel)
    /\ activeChannels' = activeChannels \ {ChannelId}
    /\ channelEvent' = [type |-> "channel_hangup"]
    /\ UNCHANGED nonChannelVars

\* new ChannelManager(call, client, channelId) on a channel that is up.
NewManager ==
    [call |-> [action_url |-> AnswerUrl],
     remainingActions |-> <<>>,
     gatherInstance |-> [digits |-> <<>>, running |-> FALSE, numDigits |-> 1,
                         finishOnKey |-> "", action |-> NoData,
                         timeout |-> 0, timeoutSeconds |-> 5],
     playbackId |-> 0,
     isPlaying |-> FALSE,
     currentTimeout |-> 0,
     timeoutHandle |-> 0,
     pendingAction |-> NoData,
     currentActionStatus |-> "",
     isDestroyed |-> FALSE,
     timers |-> EmptyMap,
     playbacks |-> {},
     channelUp |-> TRUE,
     log |-> <<>>]

\* The state once originateCall has created the channel and its manager.
ChannelInit ==
    /\ channel = NewManager
    /\ activeChannels = {ChannelId}
    /\ channelEvent = [type |-> "originate"]

ChannelNext ==
    \/ StasisStart
    \/ DtmfReceived
    \/ PlaybackFinished
    \/ SetChannelAction
    \/ TimerFires
    \/ HangupCall
    \/ RemoteHangup
    \/ ChannelHangup

(***************************************************************************)
(*        ChannelManager: handlers between their points of suspension      *)
(***************************************************************************)
\* The handlers of the manager are async functions: one runs until it
\* awaits a PBX call or a fetch and resumes when that call settles.  The
\* events of the channel are delivered as they arrive (ARIService calls
\* manager.onDTMFReceived, onPlaybackFinished and setAction at once).

\* Bound of the exploration.
MaxHandlers == 3

\* The events whose handlers the session is to run one at a time.
SessionEvents == {"dtmf", "playback_finished", "timer", "set_action"}

\* getActions up to `await this.api.fetchActionXML(finalUrl, params)`
FetchIssued(c, actionUrl, digits) ==
    LET finalUrl == IF actionUrl.uuid THEN actionUrl ELSE addUuidToUrl(actionUrl) IN
    Logged([c EXCEPT !.currentActionStatus = StatusOfUrl(finalUrl, @)],
           Outbound("fetch", 0, finalUrl, digits))

\* What a handler has done when it returns or suspends: the fields of the
\* manager, the await it is suspended at ("" when it has returned), and the
\* Digits of the fetch or the playbackId of the play it awaits.
Returned(c) == [c |-> c, pc |-> "", digits |-> <<>>, playbackId |-> 0]
Awaiting(c, pc, digits) == [c |-> c, pc |-> pc, digits |-> digits, playbackId |-> 0]

\* play() up to `await this.api.play(...)`: the PBX starts the playback on a
\* channel that is up and rejects the call on one that is gone
PlayIssued(c) ==
    LET called == PlayCalled(c) IN
    [Awaiting(called, IF called.channelUp THEN "play" ELSE "playThrows", <<>>)
        EXCEPT !.playbackId = called.playbackId]

\* play() after the PBX accepted the call: the playback runs on the PBX
PlayResumed(c, playbackId) ==
    LET playing == [c EXCEPT !.playbacks = @ \cup {playbackId}] IN
    IF playing.currentTimeout > 0
    THEN SetTimeoutHandle(playing, "handleTimeout")
    ELSE playing

\* runAction() up to its first await (the PBX call of a play, the fetch of a
\* redirect) or to its return
RECURSIVE runActionBegins(_)
runActionBegins(c) ==
    IF c.remainingActions = <<>>
    THEN {Returned(c)}
    ELSE LET action == Head(c.remainingActions)
             shifted == [ClearTimeoutHandle(c) EXCEPT
                            !.remainingActions = Tail(@),
                            !.currentTimeout = action.attributes.timeout]
         IN
         CASE action.name = "play" ->
                IF action.data = NoData
                THEN runActionBegins(shifted)
                ELSE {PlayIssued(shifted)}
           [] action.name = "gather" -> {Returned(gather(shifted, action.attributes))}
           [] action.name = "redirect" ->
                IF action.data = NoData THEN {Returned(shifted)}
                ELSE {Awaiting(FetchIssued(ClearTimeoutHandle(shifted), action.data, <<>>),
                               "fetch", <<>>)}
           [] action.name = "hangup" ->
                {Returned(destroy(Logged([shifted EXCEPT !.channelUp = FALSE],
                                         Outbound("hangup", 0, NoData, <<>>))))}
           [] OTHER -> runActionBegins(shifted)

\* The catch of play(): runAction, and runAction again once play() has returned
PlayThrew(c) ==
    UNION { IF r.pc = "" THEN runActionBegins(r.c) ELSE {r} : r \in runActionBegins(c) }

\* getActions after the fetch has settled (a script, a document without
\* Response, or an error), then runAction
FetchSettled(c, digits) ==
    UNION { runActionBegins(g) :
              g \in { [c EXCEPT !.remainingActions = script] : script \in Scripts(digits) }
                       \cup {c} \cup {destroy(c)} }

\* start() with its first script fetched
StartBegins(c) ==
    IF c.call.action_url # NoData
    THEN UNION { runActionBegins(g) : g \in getActions(c, c.call.action_url, <<>>) }
    ELSE {Returned(c)}

\* onDTMFReceived after the barge-in: from the clearTimeout to the return or
\* to the fetch of the gather's action
AfterBargeIn(c, digit) ==
    LET cleared == ClearTimeoutHandle(c)
        g == cleared.gatherInstance
        completed(x) ==
            LET done == ClearGatherTimeout([x EXCEPT !.gatherInstance.running = FALSE]) IN
            IF done.gatherInstance.action # NoData
            THEN Awaiting(FetchIssued(done, done.gatherInstance.action,
                                      done.gatherInstance.digits),
                          "fetch", done.gatherInstance.digits)
            ELSE Returned(done)
        added == [cleared EXCEPT !.gatherInstance.digits = Append(@, digit)]
    IN
    IF ~g.running THEN Returned(cleared)
    ELSE IF g.finishOnKey # "" /\ digit = g.finishOnKey THEN completed(cleared)
    ELSE IF g.finishOnKey = "" /\ Len(added.gatherInstance.digits) >= g.numDigits
    THEN completed(added)
    ELSE Returned(added)

\* onDTMFReceived(digit) up to its first await
DtmfBegins(c, digit) ==
    IF c.isPlaying /\ c.playbackId # 0
    THEN Awaiting(Logged(c, Outbound("stopPlayback", c.playbackId, NoData, <<>>)),
                  "stopPlayback", <<>>)
    ELSE AfterBargeIn(c, digit)

\* setAction(url) up to its first await
SetActionBegins(c, url) ==
    Awaiting(FetchIssued(ClearTimeoutHandle(c), url, <<>>), "fetch", <<>>)

\* onPlaybackFinished(playbackId) up to its first await or to its return
PlaybackFinishedBegins(c, playbackId) ==
    IF playbackId # 0 /\ c.playbackId # 0 /\ playbackId # c.playbackId
    THEN {Returned(c)}
    ELSE LET cleared == ClearTimeoutHandle([c EXCEPT !.isPlaying = FALSE]) IN
         IF cleared.pendingAction # NoData
         THEN {Awaiting(FetchIssued([cleared EXCEPT !.pendingAction = NoData],
                                    cleared.pendingAction, <<>>), "fetch", <<>>)}
         ELSE IF cleared.gatherInstance.running
         THEN {Returned(SetGatherTimeout(ClearGatherTimeout(cleared)))}
         ELSE IF cleared.remainingActions = <<>>
         THEN {Returned(SetTimeoutHandle(cleared, "destroy"))}
         ELSE runActionBegins(cleared)

\* the callback of an armed timer up to its first await or to its return
TimerBegins(c, callback) ==
    IF callback = "handleTimeout"
    THEN IF c.pendingAction # NoData
         THEN {SetActionBegins(c, c.pendingAction)}
         ELSE runActionBegins(c)
    ELSE {Returned(r) : r \in TimerCallback(c, callback)}

\* A handler invocation ran from its start or from an await to `result`.
Ran(event, digit, result, others) ==
    /\ session' = result.c
    /\ WithinChannelBounds(session')
    /\ suspended' = IF result.pc = "" THEN others
                    ELSE others \cup {[id |-> nextHandler, event |-> event,
                                       pc |-> result.pc, digit |-> digit,
                                       digits |-> result.digits,
                                       playbackId |-> result.playbackId]}
    /\ nextHandler' = nextHandler + 1

\* channel_entered_stasis: start() fetches the first script and runs it
SessionStart ==
    /\ nextHandler = 1
    /\ \E begun \in StartBegins(session) :
          Ran("start", "", begun, suspended)
    /\ UNCHANGED nonSessionVars

\* dtmf_received arrives
SessionDtmf ==
    /\ nextHandler \in 2..MaxHandlers
    /\ \E digit \in Digits :
          Ran("dtmf", digit, DtmfBegins(Delivered(session), digit), suspended)
    /\ UNCHANGED nonSessionVars

\* setChannelAction arrives
SessionSetAction ==
    /\ nextHandler \in 2..MaxHandlers
    /\ Ran("set_action", "", SetActionBegins(Delivered(session), ConfirmUrl), suspended)
    /\ UNCHANGED nonSessionVars

\* playback_finished arrives
SessionPlaybackFinished ==
    /\ nextHandler \in 2..MaxHandlers
    /\ \E playbackId \in session.playbacks :
          \E finished \in PlaybackFinishedBegins(
                              [Delivered(session) EXCEPT !.playbacks = @ \ {playbackId}],
                              playbackId) :
             Ran("playback_finished", "", finished, suspended)
    /\ UNCHANGED nonSessionVars

\* an armed timer fires
SessionTimerFires ==
    /\ nextHandler \in 2..MaxHandlers
    /\ \E t \in DOMAIN session.timers :
          \E fired \in TimerBegins([Delivered(session) EXCEPT !.timers = MapDel(@, t)],
                                   session.timers[t]) :
             Ran("timer", "", fired, suspended)
    /\ UNCHANGED nonSessionVars

\* The PBX call or the fetch a handler awaits settles and the handler goes on
\* to its next await or to its return.
SessionResume ==
    /\ \E h \in suspended :
          \E result \in
                CASE h.pc = "stopPlayback" ->
                       {AfterBargeIn([session EXCEPT !.isPlaying = FALSE, !.playbackId = 0,
                                                     !.log = <<>>],
                                     h.digit)}
                  [] h.pc = "play" -> runActionBegins(PlayResumed(Delivered(session), h.playbackId))
                  [] h.pc = "playThrows" -> PlayThrew(Delivered(session))
                  [] OTHER -> FetchSettled(Delivered(session), h.digits) :
             /\ session' = result.c
             /\ WithinChannelBounds(session')
             /\ suspended' = IF result.pc = "" THEN suspended \ {h}
                             ELSE (suspended \ {h}) \cup
                                     {[h EXCEPT !.pc = result.pc, !.digits = result.digits,
                                                !.playbackId = result.playbackId]}
             /\ UNCHANGED nextHandler
    /\ UNCHANGED nonSessionVars

SessionInit ==
    /\ session = NewManager
    /\ suspended = {}
    /\ nextHandler = 1

SessionNext ==
    \/ SessionStart
    \/ SessionDtmf
    \/ SessionSetAction
    \/ SessionPlaybackFinished
    \/ SessionTimerFires
    \/ SessionResume

(***************************************************************************)
(*               ARIEventHandler, ARIService and CallStore                 *)
(***************************************************************************)

\* Bounds of the exploration.
MaxCalls == 1
MaxPbxEvents == 3
MaxAriTicks == 4

\* Program constants: the delays of the two setTimeout(... delete ...) calls.
PLAYBACK_FORGET_MS == 30000
COMPLETED_FORGET_MS == 30000

\* The clock advances in steps of half a window.
AriTickMs == PLAYBACK_FORGET_MS \div 2

\* playback ids, as numbers no channel id equals
PlaybackIds == {101, 102}

\* playback.target_uri as the list of its '/'-separated parts, a part being
\* a prefix ("" for none) and the rest: "channel:7" is <<[prefix |-> "channel:", rest |-> 7]>>.
\* A bridge has an id that is no channel's.
TargetUris(channels) ==
    { <<[prefix |-> "channel:", rest |-> c]>> : c \in channels }
        \cup { <<[prefix |-> "", rest |-> c]>> : c \in channels }
        \cup { <<[prefix |-> "bridge:", rest |-> 0], [prefix |-> "bridge:", rest |-> 0]>> }

\* event.playback.target_uri?.split('/').pop(), less a leading "channel:"
TargetChannel(targetUri) ==
    LET last == targetUri[Len(targetUri)] IN
    IF last.prefix = "channel:" THEN [last EXCEPT !.prefix = ""] ELSE last

\* this.activeChannels.get(channelId) finds a manager
HasManager(channelId) == channelId.prefix = "" /\ channelId.rest \in managers

\* A handler without the dedupe check (what C12 rules out).
SeenPlaybackNever(pbId) == FALSE

\* this.processedPlaybacks.has(pbId)
SeenPlayback(pbId) == pbId \in processedPlaybacks

\* A handler that takes every hangup notice for the first (what C13 rules out).
AlreadyCompletedNever(channelId) == FALSE

\* this.completedChannels.has(data.channelId)
AlreadyCompleted(channelId) == channelId \in completedChannels

ForgetTimer(set, id, delay) == [set |-> set, id |-> id, due |-> ariNow + delay]

PbxEvent(type, id, emitted, handled) ==
    [type |-> type, id |-> id, at |-> ariNow, emitted |-> emitted, handled |-> handled]

\* ---- call-controller: originateCall registers the manager, saveCall the record
originate(campaign) ==
    /\ managers' = managers \cup {nextCall}
    /\ calls' = MapPut(calls, nextCall,
                       [uuid |-> nextCall, state |-> "pending", campaign |-> campaign,
                        created_at |-> ariNow, selectedOption |-> "", gatherStage |-> ""])
    /\ nextCall' = nextCall + 1
    /\ UNCHANGED <<processedPlaybacks, completedChannels, forgetTimers, ariNow, pbxLog>>

\* ---- handleAriEvent, case 'PlaybackFinished', and the playback_finished
\* handler of ARIService (handlePlaybackFinished)
handlePlaybackFinished(pbId, targetUri) ==
    IF SeenPlayback(pbId)
    THEN /\ pbxLog' = Append(pbxLog, PbxEvent("PlaybackFinished", pbId, FALSE, FALSE))
         /\ UNCHANGED <<processedPlaybacks, forgetTimers>>
    ELSE /\ processedPlaybacks' = processedPlaybacks \cup {pbId}
         /\ forgetTimers' = forgetTimers \cup
                              {ForgetTimer("processedPlaybacks", pbId, PLAYBACK_FORGET_MS)}
         /\ pbxLog' = Append(pbxLog,
                             PbxEvent("PlaybackFinished", pbId, TRUE,
                                      HasManager(TargetChannel(targetUri))))

\* ---- handleAriEvent, case 'ChannelHangupRequest' / 'ChannelDestroyed', and
\* the channel_hangup handler of ARIService with cleanupCall
handleChannelHangup(channelId) ==
    IF AlreadyCompleted(channelId)
    THEN /\ pbxLog' = Append(pbxLog, PbxEvent("hangup", channelId, TRUE, FALSE))
         /\ UNCHANGED <<completedChannels, forgetTimers, managers, calls>>
    ELSE /\ completedChannels' = completedChannels \cup {channelId}
         /\ calls' = MapDel(calls, channelId)
         /\ managers' = managers \ {channelId}
         /\ forgetTimers' = forgetTimers \cup
                              {ForgetTimer("completedChannels", channelId, COMPLETED_FORGET_MS)}
         /\ pbxLog' = Append(pbxLog, PbxEvent("hangup", channelId, TRUE, TRUE))

\* ---- the actions
AriOriginate ==
    /\ nextCall <= MaxCalls
    /\ originate("single")
    /\ UNCHANGED ivrVars
    /\ UNCHANGED nonAriVars

PbxPlaybackFinished ==
    /\ Len(pbxLog) < MaxPbxEvents
    /\ \E pbId \in PlaybackIds, targetUri \in TargetUris(1..MaxCalls) :
          handlePlaybackFinished(pbId, targetUri)
    /\ UNCHANGED <<completedChannels, managers, calls, nextCall, ariNow>>
    /\ UNCHANGED ivrVars
    /\ UNCHANGED nonAriVars

PbxChannelHangup ==
    /\ Len(pbxLog) < MaxPbxEvents
    /\ \E channelId \in 1..(nextCall - 1) : handleChannelHangup(channelId)
    /\ UNCHANGED <<processedPlaybacks, nextCall, ariNow>>
    /\ UNCHANGED ivrVars
    /\ UNCHANGED nonAriVars

\* The callback of a setTimeout(() => set.delete(id), 30000) runs.
ForgetTimerFires ==
    /\ \E t \in forgetTimers :
          /\ t.due <= ariNow
          /\ forgetTimers' = forgetTimers \ {t}
          /\ processedPlaybacks' = IF t.set = "processedPlaybacks"
                                   THEN processedPlaybacks \ {t.id} ELSE processedPlaybacks
          /\ completedChannels' = IF t.set = "completedChannels"
                                  THEN completedChannels \ {t.id} ELSE completedChannels
    /\ UNCHANGED <<managers, calls, nextCall, ariNow, pbxLog>>
    /\ UNCHANGED ivrVars
    /\ UNCHANGED nonAriVars

\* Time passes; a due timer fires before the clock moves past it.
AriTick ==
    /\ ariNow + AriTickMs <= MaxAriTicks * AriTickMs
    /\ \A t \in forgetTimers : ariNow + AriTickMs <= t.due
    /\ ariNow' = ariNow + AriTickMs
    /\ UNCHANGED <<processedPlaybacks, completedChannels, forgetTimers, managers,
                   calls, nextCall, pbxLog>>
    /\ UNCHANGED ivrVars
    /\ UNCHANGED nonAriVars

AriInit ==
    /\ processedPlaybacks = {}
    /\ completedChannels = {}
    /\ forgetTimers = {}
    /\ managers = {}
    /\ calls = EmptyMap
    /\ nextCall = 1
    /\ ariNow = 0
    /\ pbxLog = <<>>

EventsNext ==
    \/ AriOriginate
    \/ PbxPlaybackFinished
    \/ PbxChannelHangup
    \/ ForgetTimerFires
    \/ AriTick

(***************************************************************************)
(*        ActionController (GET /action/:status) and /otp/validate         *)
(***************************************************************************)

\* Bounds of the exploration: the HTTP requests received, and the minutes
\* the clock of the store runs.
MaxRequests == 2
MaxStoreTicks == 16

\* Program constants of CallStore: the sweeper's period in ms and the age in
\* minutes past which it removes a record.
CLEANUP_INTERVAL == 60 * 1000
EXPIRATION_TIME == 15

\* What the campaigns API returned and campaignsCache holds: the steps of
\* each campaign.  "two_gather" has a gather1 step, the other two have none;
\* "venmo_fraude" starts on a menu.
Campaigns == {"two_gather", "venmo_fraude", "single"}

Steps(campaign) ==
    CASE campaign = "two_gather" ->
           {"answer", "gather", "confirm", "gather1", "completed", "invalid"}
      [] campaign = "venmo_fraude" ->
           {"options", "option1", "option2", "confirm", "completed_option1",
            "completed_option2", "invalid"}
      [] campaign = "single" ->
           {"answer", "gather", "confirm", "completed", "invalid"}
      [] OTHER -> {}

\* ActionData.next of a step ("" for none)
NextOf(action) ==
    CASE action \in {"gather", "gather1", "option1", "option2"} -> "confirm"
      [] action = "answer" -> "gather"
      [] OTHER -> ""

\* The inputs of the requests: the :status of GET /action/:status, its Digits
\* query parameter ("" when absent) and the isValid field of the body of
\* POST /otp/validate, as JSON text.
RequestedSteps == {"options", "gather", "gather1", "confirm"}
DigitInputs == {"", "1", "9"}
IsValidInputs == {"true", "false", "undefined"}

\* JavaScript values
Null == "null"
Undefined == ""

\* if (isValid): what JavaScript takes for true
Truthy(value) == value \notin {"false", "undefined", "null", "0"}

NoActionData == [found |-> FALSE, next |-> ""]

\* CampaignService.getActionData on a loaded cache; found is FALSE for null
getActionData(campaignName, action) ==
    IF action \in Steps(campaignName)
    THEN [found |-> TRUE, next |-> NextOf(action)]
    ELSE NoActionData

\* ActionController.isTwoGatherCampaign, and the same test of /otp/validate
isTwoGatherCampaign(campaignName) == getActionData(campaignName, "gather1").found

\* callData?.field of a call the store does not hold: every field undefined
NoCall == [uuid |-> 0, state |-> Undefined, campaign |-> Undefined, created_at |-> 0,
           selectedOption |-> Undefined, gatherStage |-> Undefined]

\* CallStore.getCall
getCall(store, uuid) == IF uuid \in DOMAIN store THEN store[uuid] ELSE NoCall

\* CallStore.updateCall: { ...existingCall, ...updates }
updateCall(store, uuid, updates) ==
    IF uuid \in DOMAIN store
    THEN LET existingCall == store[uuid] IN
         [store EXCEPT ![uuid] = [f \in DOMAIN existingCall |->
                                    IF f \in DOMAIN updates THEN updates[f]
                                    ELSE existingCall[f]]]
    ELSE store

\* `http://localhost:3000/action/${targetAction}`
ActionUrl(targetAction) == [base |-> "http://localhost:3000/action/", status |-> targetAction]

NoSteer == [callId |-> 0, url |-> ActionUrl(""), found |-> FALSE]
NoRequest == [kind |-> "", callId |-> 0, status |-> "", digits |-> "", isValid |-> ""]

\* The XML of a response: the error script, a <Redirect> or the script of a step
ErrorXml == [kind |-> "error", status |-> "", campaign |-> ""]
RedirectXml(next) == [kind |-> "redirect", status |-> next, campaign |-> ""]
generateXMLResponse(status, campaign) ==
    [kind |-> "script", status |-> status, campaign |-> campaign]

\* ---- ActionController.processActionLogic: the store it leaves and the
\* messages it passes to sendToCallId
processActionLogic(store, status, uuid, digits) ==
    LET callData == getCall(store, uuid)
        two == callData.campaign # Undefined /\ isTwoGatherCampaign(callData.campaign)
    IN  CASE status = "gather" /\ digits # "" ->
               [calls |-> IF two THEN updateCall(store, uuid, [gatherStage |-> "first"])
                          ELSE store,
                pushed |-> <<[callId |-> uuid, SendOtp |-> digits]>>]
          [] status = "gather1" /\ digits # "" ->
               [calls |-> IF two
                          THEN updateCall(store, uuid,
                                          [gatherStage |-> "second", state |-> "gather1"])
                          ELSE store,
                pushed |-> <<[callId |-> uuid, OtpCode |-> digits]>>]
          [] status \in {"option1", "option2"} /\ digits # "" ->
               [calls |-> store,
                pushed |-> <<[callId |-> uuid, SendOtp |-> digits]>>]
          [] status = "confirm" /\ two /\ callData.gatherStage = "second" ->
               [calls |-> updateCall(store, uuid, [state |-> "completed"]),
                pushed |-> <<>>]
          [] status = "confirm" /\ ~(two /\ callData.gatherStage = "second")
               /\ digits # "" ->
               [calls |-> IF two /\ callData.gatherStage \in {Undefined, "first"}
                          THEN updateCall(store, uuid, [gatherStage |-> "first"])
                          ELSE store,
                pushed |-> <<[callId |-> uuid, OtpCode |-> digits,
                              selectedOption |->
                                 IF callData.selectedOption = Undefined THEN Null
                                 ELSE callData.selectedOption]>>]
          [] OTHER -> [calls |-> store, pushed |-> <<>>]

\* A menu that sends every caller to option1 (what C18 rules out).
selectedOptionAlwaysFirst(digit) == "1"

\* handleAction, the menu: digit 1 is option 1, every other digit option 2
selectedOptionOf(digit) == IF digit = "1" THEN "1" ELSE "2"

\* ---- ActionController.handleAction
handleAction(uuid, requested, digits) ==
    IF uuid \notin DOMAIN calls
    THEN /\ response' = ErrorXml
         /\ pushed' = <<>>
         /\ UNCHANGED calls
    ELSE LET campaign == calls[uuid].campaign
             menu == requested = "options" /\ digits # ""
             chosen == selectedOptionOf(digits)
             hoisted == IF menu
                        THEN updateCall(calls, uuid, [selectedOption |-> chosen])
                        ELSE calls
             status == IF ~menu THEN requested
                       ELSE IF chosen = "1" THEN "option1" ELSE "option2"
             actionData == getActionData(campaign, status)
             done == processActionLogic(hoisted, status, uuid, digits)
         IN  IF ~actionData.found
             THEN /\ calls' = hoisted
                  /\ pushed' = <<>>
                  /\ response' = ErrorXml
             ELSE /\ calls' = done.calls
                  /\ pushed' = done.pushed
                  /\ response' =
                       IF status = "gather1" /\ digits # ""
                          /\ getActionData(campaign, "gather1").next # ""
                       THEN RedirectXml(getActionData(campaign, "gather1").next)
                       ELSE generateXMLResponse(status, campaign)

\* No store update, no redirection, no message
NoDecision(callId) ==
    [gatherStage |-> Undefined, targetAction |-> "", message |-> [callId |-> callId]]

\* A valid second round that is sent through gather1 again (what C17 rules out).
validTwoGatherRepeating(callId, gatherStage) ==
    [gatherStage |-> "second", targetAction |-> "gather1",
     message |-> [callId |-> callId, OtpValidation |-> "valid", gatherStage |-> "second"]]

\* /otp/validate, isValid and a campaign of two gathers: the gatherStage it
\* stores (Undefined for none), the step it redirects to and what it pushes
validTwoGather(callId, gatherStage) ==
    IF gatherStage = Undefined \/ gatherStage = "first"
    THEN [gatherStage |-> "second", targetAction |-> "gather1",
          message |-> [callId |-> callId, OtpValidation |-> "valid",
                       gatherStage |-> "second"]]
    ELSE IF gatherStage = "second"
    THEN [gatherStage |-> Undefined, targetAction |-> "completed",
          message |-> [callId |-> callId, OtpValidation |-> "valid",
                       gatherStage |-> "completed"]]
    ELSE NoDecision(callId)

\* /otp/validate, isValid and a campaign of one gather
validSingleGather(callId, selectedOption) ==
    [gatherStage |-> Undefined,
     targetAction |-> IF selectedOption = "1" THEN "completed_option1"
                      ELSE IF selectedOption = "2" THEN "completed_option2"
                      ELSE "completed",
     message |-> [callId |-> callId, OtpValidation |-> "valid",
                  selectedOption |-> IF selectedOption = Undefined THEN Null
                                     ELSE selectedOption]]

\* An invalid code that is taken for a passed first round (what C19 rules out).
invalidTwoGatherAdvancing(callId, gatherStage) ==
    [gatherStage |-> "second", targetAction |-> "invalid",
     message |-> [callId |-> callId, OtpValidation |-> "invalid", gatherStage |-> "second"]]

\* /otp/validate, not isValid and a campaign of two gathers
invalidTwoGather(callId, gatherStage) ==
    IF gatherStage = Undefined \/ gatherStage = "first"
    THEN [gatherStage |-> "first", targetAction |-> "invalid",
          message |-> [callId |-> callId, OtpValidation |-> "invalid",
                       gatherStage |-> "first"]]
    ELSE IF gatherStage = "second"
    THEN [gatherStage |-> Undefined, targetAction |-> "gather1",
          message |-> [callId |-> callId, OtpValidation |-> "invalid",
                       gatherStage |-> "second"]]
    ELSE NoDecision(callId)

\* /otp/validate, not isValid and a campaign of one gather
invalidSingleGather(callId) ==
    [gatherStage |-> Undefined, targetAction |-> "invalid",
     message |-> [callId |-> callId, OtpValidation |-> "invalid"]]

\* ---- POST /otp/validate/:callId up to await setChannelAction, and past it
\* when setChannelAction finds no manager and returns at once
validate(callId, isValid) ==
    LET callData == getCall(calls, callId)
        campaign == callData.campaign
        isTwoGather == campaign # Undefined /\ isTwoGatherCampaign(campaign)
        decision == IF Truthy(isValid)
                    THEN IF isTwoGather THEN validTwoGather(callId, callData.gatherStage)
                         ELSE validSingleGather(callId, callData.selectedOption)
                    ELSE IF isTwoGather THEN invalidTwoGather(callId, callData.gatherStage)
                         ELSE invalidSingleGather(callId)
    IN  /\ calls' = IF decision.gatherStage = Undefined THEN calls
                    ELSE updateCall(calls, callId, [gatherStage |-> decision.gatherStage])
        /\ IF decision.targetAction = ""
           THEN UNCHANGED <<steered, validating>> /\ pushed' = <<>>
           ELSE /\ steered' = [callId |-> callId, url |-> ActionUrl(decision.targetAction),
                               found |-> callId \in managers]
                /\ IF callId \in managers
                   THEN /\ validating' = validating \cup
                                           {[id |-> nextRequest, message |-> decision.message]}
                        /\ pushed' = <<>>
                   ELSE /\ pushed' = <<decision.message>>
                        /\ UNCHANGED validating

\* ---- POST /otp/validate/:callId: the response, res.json after the branches.
\* The status 500 of the catch needs a call of the try block to throw, and
\* none does for a call the store or the registry does not hold.
validateResponse(callId, isValid) ==
    [status |-> "ok", success |-> TRUE,
     message |-> IF Truthy(isValid) THEN "valido" ELSE "invalido"]

\* The records this step's updateCall calls changed are written now.
NoteWrites ==
    LET written == { uuid \in DOMAIN calls : calls'[uuid] # calls[uuid] } IN
    lastWrite' = [uuid \in DOMAIN lastWrite \cup written |->
                    IF uuid \in written THEN ariNow ELSE lastWrite[uuid]]

\* ---- CallStore.cleanupExpiredCalls
cleanupExpiredCalls ==
    LET expiredCalls == { uuid \in DOMAIN calls :
                            ariNow - calls[uuid].created_at > EXPIRATION_TIME * (1000 * 60) }
    IN  calls' = [uuid \in DOMAIN calls \ expiredCalls |-> calls[uuid]]

\* ---- the actions
IvrOriginate ==
    /\ nextCall <= MaxCalls
    /\ \E campaign \in Campaigns : originate(campaign)
    /\ UNCHANGED ivrVars
    /\ UNCHANGED nonAriVars

HandleAction ==
    /\ nextRequest <= MaxRequests
    /\ \E uuid \in 1..MaxCalls, requested \in RequestedSteps, digits \in DigitInputs :
          /\ handleAction(uuid, requested, digits)
          /\ request' = [NoRequest EXCEPT !.kind = "action", !.callId = uuid,
                                          !.status = requested, !.digits = digits]
          /\ secondRound' = IF requested = "gather1" /\ digits # ""
                            THEN secondRound \cup {uuid} ELSE secondRound
    /\ nextRequest' = nextRequest + 1
    /\ NoteWrites
    /\ UNCHANGED <<steered, validating, sweepDue>>
    /\ UNCHANGED <<processedPlaybacks, completedChannels, forgetTimers, managers,
                   nextCall, ariNow, pbxLog>>
    /\ UNCHANGED nonAriVars

ValidateOtp ==
    /\ nextRequest <= MaxRequests
    /\ \E callId \in 1..MaxCalls, isValid \in IsValidInputs :
          /\ validate(callId, isValid)
          /\ request' = [NoRequest EXCEPT !.kind = "validate", !.callId = callId,
                                          !.isValid = isValid]
    /\ nextRequest' = nextRequest + 1
    /\ NoteWrites
    /\ UNCHANGED <<response, sweepDue, secondRound>>
    /\ UNCHANGED <<processedPlaybacks, completedChannels, forgetTimers, managers,
                   nextCall, ariNow, pbxLog>>
    /\ UNCHANGED nonAriVars

\* setChannelAction returned: the handler pushes its message and responds.
ValidateResumes ==
    /\ \E v \in validating :
          /\ validating' = validating \ {v}
          /\ pushed' = <<v.message>>
    /\ UNCHANGED <<steered, response, request, nextRequest, lastWrite, sweepDue, secondRound>>
    /\ UNCHANGED <<processedPlaybacks, completedChannels, forgetTimers, managers,
                   calls, nextCall, ariNow, pbxLog>>
    /\ UNCHANGED nonAriVars

\* The PBX reports the hangup of a call that has a session.
CallHangup ==
    /\ \E channelId \in managers : handleChannelHangup(channelId)
    /\ UNCHANGED <<processedPlaybacks, nextCall, ariNow>>
    /\ UNCHANGED ivrVars
    /\ UNCHANGED nonAriVars

\* The callback of setInterval(() => this.cleanupExpiredCalls(), CLEANUP_INTERVAL)
Sweep ==
    /\ sweepDue <= ariNow
    /\ cleanupExpiredCalls
    /\ sweepDue' = sweepDue + CLEANUP_INTERVAL
    /\ UNCHANGED <<steered, pushed, validating, response, request, nextRequest, lastWrite,
                   secondRound>>
    /\ UNCHANGED <<processedPlaybacks, completedChannels, forgetTimers, managers,
                   nextCall, ariNow, pbxLog>>
    /\ UNCHANGED nonAriVars

\* Time passes; the sweeper runs before the clock moves past its due time.
StoreTick ==
    /\ ariNow + CLEANUP_INTERVAL <= MaxStoreTicks * CLEANUP_INTERVAL
    /\ ariNow + CLEANUP_INTERVAL <= sweepDue
    /\ ariNow' = ariNow + CLEANUP_INTERVAL
    /\ UNCHANGED <<processedPlaybacks, completedChannels, forgetTimers, managers,
                   calls, nextCall, pbxLog>>
    /\ UNCHANGED ivrVars
    /\ UNCHANGED nonAriVars

IvrInit ==
    /\ steered = NoSteer
    /\ pushed = <<>>
    /\ validating = {}
    /\ response = ErrorXml
    /\ request = NoRequest
    /\ nextRequest = 1
    /\ lastWrite = EmptyMap
    /\ sweepDue = CLEANUP_INTERVAL
    /\ secondRound = {}

IvrNext ==
    \/ IvrOriginate
    \/ HandleAction
    \/ ValidateOtp
    \/ ValidateResumes
    \/ CallHangup

StoreNext ==
    \/ IvrOriginate
    \/ HandleAction
    \/ ValidateOtp
    \/ ValidateResumes
    \/ CallHangup
    \/ Sweep
    \/ StoreTick

(***************************************************************************)
(*                  ARIEventHandler: connection to the PBX                 *)
(***************************************************************************)

\* Bounds of the exploration.
MaxPbxSockets == 7
MaxReconnectTicks == 8

\* Program constants.
maxReconnectAttempts == 5
reconnectDelay == 5000

\* The clock advances in steps of one delay.
ReconnectTickMs == reconnectDelay * 1

\* if (attempts < this.maxReconnectAttempts)
MayRetry(attempts) == attempts < maxReconnectAttempts

\* ---- attemptReconnect(serverId, config, appName)
attemptReconnect ==
    IF MayRetry(reconnectAttempts)
    THEN /\ reconnectAttempts' = reconnectAttempts + 1
         /\ reconnectTimers' = Append(reconnectTimers, reconnectNow + reconnectDelay)
         /\ UNCHANGED serverFailed
    ELSE /\ serverFailed' = serverFailed + 1
         /\ UNCHANGED <<reconnectAttempts, reconnectTimers>>

\* The sockets are told apart by their state only: `from` sockets less one,
\* `to` sockets plus one ("" for a socket made or gone).
SocketMoves(from, to) ==
    [st \in DOMAIN pbxSockets |->
        pbxSockets[st] + (IF st = to THEN 1 ELSE 0) - (IF st = from THEN 1 ELSE 0)]

\* ---- connectToServer(serverId, config, appName): new WebSocket(wsUrl)
connectToServer ==
    /\ pbxSockets' = SocketMoves("", "CONNECTING")
    /\ connects' = connects + 1
    /\ lastConnectAt' = reconnectNow

\* ---- registerServerByIp: the first connectToServer of the server
ServerRegister ==
    /\ connects = 0
    /\ connectToServer
    /\ UNCHANGED <<pbxConnection, reconnectAttempts, reconnectTimers, reconnectNow,
                   serverFailed, retriesSinceOpen>>
    /\ UNCHANGED pbxStopped
    /\ UNCHANGED nonReconnectVars

\* ---- ws.on('open')
PbxSocketOpen ==
    /\ pbxSockets["CONNECTING"] > 0
    /\ pbxSockets' = SocketMoves("CONNECTING", "OPEN")
    /\ pbxConnection' = TRUE
    /\ reconnectAttempts' = 0
    /\ retriesSinceOpen' = 0
    /\ UNCHANGED <<reconnectTimers, reconnectNow, connects, lastConnectAt, serverFailed>>
    /\ UNCHANGED pbxStopped
    /\ UNCHANGED nonReconnectVars

\* ---- ws.on('error'): a handshake that fails or an open socket that breaks
\* emits 'error'; its 'close' follows
PbxSocketError ==
    /\ \E st \in {"CONNECTING", "OPEN"} :
          /\ pbxSockets[st] > 0
          /\ pbxSockets' = SocketMoves(st, "CLOSING")
    /\ pbxConnection' = FALSE
    /\ attemptReconnect
    /\ UNCHANGED <<reconnectNow, connects, lastConnectAt, retriesSinceOpen>>
    /\ UNCHANGED pbxStopped
    /\ UNCHANGED nonReconnectVars

\* ---- ws.on('close'): of an open socket the server closed, or after 'error'
PbxSocketClose ==
    /\ \E st \in {"OPEN", "CLOSING"} :
          /\ pbxSockets[st] > 0
          /\ pbxSockets' = SocketMoves(st, "")
    /\ pbxConnection' = FALSE
    /\ attemptReconnect
    /\ UNCHANGED <<reconnectNow, connects, lastConnectAt, retriesSinceOpen>>
    /\ UNCHANGED pbxStopped
    /\ UNCHANGED nonReconnectVars

\* ---- the callback of setTimeout(() => this.connectToServer(...), reconnectDelay)
ReconnectTimerFires ==
    /\ reconnectTimers # <<>>
    /\ Head(reconnectTimers) <= reconnectNow
    /\ connects < MaxPbxSockets
    /\ reconnectTimers' = Tail(reconnectTimers)
    /\ connectToServer
    /\ retriesSinceOpen' = retriesSinceOpen + 1
    /\ UNCHANGED <<pbxConnection, reconnectAttempts, reconnectNow, serverFailed>>
    /\ UNCHANGED pbxStopped
    /\ UNCHANGED nonReconnectVars

\* Time passes; a due timer fires before the clock moves past it.
ReconnectTick ==
    /\ reconnectNow + ReconnectTickMs <= MaxReconnectTicks * ReconnectTickMs
    /\ \A i \in 1..Len(reconnectTimers) :
          reconnectNow + ReconnectTickMs <= reconnectTimers[i]
    /\ reconnectNow' = reconnectNow + ReconnectTickMs
    /\ UNCHANGED <<pbxSockets, pbxConnection, reconnectAttempts, reconnectTimers,
                   connects, lastConnectAt, serverFailed, retriesSinceOpen>>
    /\ UNCHANGED pbxStopped
    /\ UNCHANGED nonReconnectVars

\* ---- disconnectAll(), called by ARIService.stop: close() on the socket held
\* in connections, then both maps cleared; no timer is cancelled
disconnectAll ==
    /\ pbxSockets' = IF pbxConnection THEN SocketMoves("OPEN", "CLOSING") ELSE pbxSockets
    /\ pbxConnection' = FALSE
    /\ reconnectAttempts' = 0

PbxStop ==
    /\ ~pbxStopped
    /\ connects > 0
    /\ disconnectAll
    /\ pbxStopped' = TRUE
    /\ UNCHANGED <<reconnectTimers, reconnectNow, connects, lastConnectAt, serverFailed,
                   retriesSinceOpen>>
    /\ UNCHANGED nonReconnectVars

ReconnectInit ==
    /\ pbxSockets = [st \in {"CONNECTING", "OPEN", "CLOSING"} |-> 0]
    /\ pbxConnection = FALSE
    /\ reconnectAttempts = 0
    /\ reconnectTimers = <<>>
    /\ reconnectNow = 0
    /\ connects = 0
    /\ lastConnectAt = 0
    /\ serverFailed = 0
    /\ retriesSinceOpen = 0
    /\ pbxStopped = FALSE

ReconnectNext ==
    \/ ServerRegister
    \/ PbxSocketOpen
    \/ PbxSocketError
    \/ PbxSocketClose
    \/ ReconnectTimerFires
    \/ ReconnectTick

(***************************************************************************)
(*              ARIService: a call from origination to cleanup             *)
(***************************************************************************)
\* originateCall and the channel_entered_stasis handler await a PBX call; the
\* events of the channel arrive on the PBX WebSocket and are handled as they
\* arrive, also while such a call is awaited.

\* The variables no step of a call's life touches.
outsideCallVars == <<trunkVars, queueVars, channelVars, sessionVars, reconnectVars>>

\* The callId a client of the call's push socket connects with.
PushIdOf(channelId) == IF channelId = 1 THEN "call1" ELSE "call2"

\* What ended a call on the PBX.
Endings == {"caller hangup", "hangup action", "timer destroy", "destroy endpoint"}

PbxChannel(state, endedBy) == [state |-> state, endedBy |-> endedBy]

\* ---- originateCall up to await client.createChannel: the id is generated
\* and the PBX creates the channel
createChannel ==
    /\ originating' = originating \cup {nextCall}
    /\ pbxChannels' = MapPut(pbxChannels, nextCall, PbxChannel("dialing", ""))
    /\ nextCall' = nextCall + 1

\* ---- originateCall after await client.createChannel, and saveCall of
\* CallController.createCall
originateReturned(channelId, campaign) ==
    /\ originating' = originating \ {channelId}
    /\ managers' = managers \cup {channelId}
    /\ calls' = MapPut(calls, channelId,
                       [uuid |-> channelId, state |-> "pending", campaign |-> campaign,
                        created_at |-> ariNow, selectedOption |-> "", gatherStage |-> ""])

\* ---- the channel_entered_stasis handler after await client.answer
\* (manager.start() is the session's part)
stasisAnswered(channelId, answered) ==
    /\ answering' = answering \ {channelId}
    /\ send(PushIdOf(channelId))
    /\ channelAnswerTimes' = IF answered
                             THEN MapPut(channelAnswerTimes, channelId, ariNow)
                             ELSE channelAnswerTimes

\* ---- the channel_hangup handler of ARIService with cleanupCall, all of it
channelHangup(channelId) ==
    IF AlreadyCompleted(channelId)
    THEN /\ pbxLog' = Append(pbxLog, PbxEvent("hangup", channelId, TRUE, FALSE))
         /\ UNCHANGED <<completedChannels, forgetTimers, managers, calls,
                        channelAnswerTimes, wsVars>>
    ELSE /\ completedChannels' = completedChannels \cup {channelId}
         /\ channelAnswerTimes' = MapDel(channelAnswerTimes, channelId)
         /\ send(PushIdOf(channelId))
         /\ calls' = MapDel(calls, channelId)
         /\ managers' = managers \ {channelId}
         /\ forgetTimers' = forgetTimers \cup
                              {ForgetTimer("completedChannels", channelId, COMPLETED_FORGET_MS)}
         /\ closeTimers' = Append(closeTimers, PushIdOf(channelId))
         /\ pbxLog' = Append(pbxLog, PbxEvent("hangup", channelId, TRUE, TRUE))

\* ---- the actions
CreateChannel ==
    /\ nextCall <= MaxCalls
    /\ createChannel
    /\ UNCHANGED <<channelAnswerTimes, answering>>
    /\ UNCHANGED <<processedPlaybacks, completedChannels, forgetTimers, managers,
                   calls, ariNow, pbxLog>>
    /\ UNCHANGED <<ivrVars, wsVars, outsideCallVars>>

OriginateReturns ==
    /\ \E channelId \in originating : originateReturned(channelId, "single")
    /\ UNCHANGED <<channelAnswerTimes, answering, pbxChannels>>
    /\ UNCHANGED <<processedPlaybacks, completedChannels, forgetTimers, nextCall,
                   ariNow, pbxLog>>
    /\ UNCHANGED <<ivrVars, wsVars, outsideCallVars>>

\* StasisStart: the callee answered; the handler asks the PBX to answer
StasisBegins ==
    /\ \E channelId \in DOMAIN pbxChannels :
          /\ pbxChannels[channelId].state = "dialing"
          /\ pbxChannels' = [pbxChannels EXCEPT ![channelId].state = "stasis"]
          /\ answering' = answering \cup {channelId}
    /\ UNCHANGED <<channelAnswerTimes, originating>>
    /\ UNCHANGED <<ariVars, wsVars, outsideCallVars>>

\* client.answer settles: with the answer of the PBX or with an error
StasisResumes ==
    /\ \E channelId \in answering, answered \in BOOLEAN :
          stasisAnswered(channelId, answered)
    /\ UNCHANGED <<originating, pbxChannels, closeTimers>>
    /\ UNCHANGED <<ariVars, outsideCallVars>>

\* The call ends on the PBX: the callee hangs up, the session hangs up
\* (Hangup verb or a timer's destroy), or POST /api/calls/:id/hangup calls
\* hangupCall, which also unregisters the session.
CallEnds ==
    /\ \E channelId \in DOMAIN pbxChannels, ending \in Endings :
          /\ pbxChannels[channelId].state \in {"dialing", "stasis"}
          /\ ending # "caller hangup" => channelId \in managers
          /\ pbxChannels' = [pbxChannels EXCEPT ![channelId] = PbxChannel("ending", ending)]
          /\ managers' = IF ending = "destroy endpoint" THEN managers \ {channelId}
                         ELSE managers
    /\ UNCHANGED <<channelAnswerTimes, originating, answering>>
    /\ UNCHANGED <<processedPlaybacks, completedChannels, forgetTimers, calls,
                   nextCall, ariNow, pbxLog>>
    /\ UNCHANGED <<ivrVars, wsVars, outsideCallVars>>

\* ChannelHangupRequest or ChannelDestroyed of a call that ended arrives
HangupEvent ==
    /\ Len(pbxLog) < MaxPbxEvents
    /\ \E channelId \in DOMAIN pbxChannels :
          /\ pbxChannels[channelId].state \in {"ending", "gone"}
          /\ pbxChannels' = [pbxChannels EXCEPT ![channelId].state = "gone"]
          /\ channelHangup(channelId)
    /\ UNCHANGED <<originating, answering>>
    /\ UNCHANGED <<processedPlaybacks, nextCall, ariNow>>
    /\ UNCHANGED <<ivrVars, outsideCallVars>>

\* The client of the call opens its push socket, once
ClientConnects ==
    /\ nextSocket = 1
    /\ Connect

LifecycleInit ==
    /\ channelAnswerTimes = EmptyMap
    /\ originating = {}
    /\ answering = {}
    /\ pbxChannels = EmptyMap

LifecycleNext ==
    \/ CreateChannel
    \/ OriginateReturns
    \/ StasisBegins
    \/ StasisResumes
    \/ CallEnds
    \/ HangupEvent
    \/ ClientConnects
    \/ CloseEvent
    \/ CloseTimerFires

(***************************************************************************)
(*                  CallController: POST /api/calls/create                 *)
(***************************************************************************)
\* createCall looks the assignment up, keeps it alive and queues a job on the
\* trunk of the assignment; the job originates the call when the queue starts
\* it and the request is answered when the job settles.  The TTL of an
\* assignment counts minutes on the trunk store's clock, the waits of the
\* queue seconds on the queue's clock.

\* Bound of the exploration: the createCall requests made.
MaxCreateCalls == 2

\* The queue of a trunk is keyed by its trunk_id.
QueueKey(trunk_id) == IF trunk_id = CustomA.trunk_id THEN "trunkA" ELSE "trunkB"

\* The job a step starts, if it starts one.
StartedJobs ==
    { started'[t][Len(started'[t])] : t \in { q \in QueueTrunks : started'[q] # started[q] } }

\* ---- createCall, up to `await this.queueManager.enqueue(...)`; a request
\* for an unknown assignment is answered 404 and changes nothing
createCall(assignment_uuid) ==
    /\ keepAlive(assignment_uuid)
    /\ enqueue(QueueKey(assignments[assignment_uuid].trunk_data.trunk_id))
    /\ createCalls' = MapPut(createCalls, nextJob,
                             [assignment_uuid |-> assignment_uuid,
                              status |-> IF enqueueReturn'.result = "queue_full"
                                         THEN 500 ELSE 0])

\* An originateCall that registers the session before the PBX answered and
\* leaves it registered when the PBX refuses (what C40 rules out).
originateFailedAfterRegistering ==
    /\ managers' = managers \cup {nextCall}
    /\ nextCall' = nextCall + 1
    /\ UNCHANGED <<processedPlaybacks, completedChannels, forgetTimers, calls,
                   ariNow, pbxLog>>

\* ---- the job threw (no server registered, or originateCall returned
\* success false): nothing is registered, nothing saved
originateFailed ==
    UNCHANGED <<processedPlaybacks, completedChannels, forgetTimers, managers,
                calls, nextCall, ariNow, pbxLog>>

\* ---- the actions
\* The fetcher delivers the inventory when the process starts.
FetcherLoads ==
    /\ trunksByUserToken = EmptyMap
    /\ UpdateInventory

\* One client asks for a trunk, once.
ClientAssigns ==
    /\ nextUuid = 1
    /\ Assign

CreateCall ==
    /\ nextJob <= MaxCreateCalls
    /\ \E assignment_uuid \in KnownIds :
          /\ assignment_uuid \in DOMAIN assignments
          /\ createCall(assignment_uuid)
    /\ UNCHANGED <<wsVars, channelVars, sessionVars, ariVars, reconnectVars, lifecycleVars>>

\* The job of a running drainer settles: the call was originated and saved,
\* or the job threw; createCall answers 200 or 500.
CallJobDone ==
    /\ \E d \in drainers, outcome \in {"resolved", "rejected"} :
          /\ d.pc = "running"
          /\ finish(d, outcome)
          /\ IF outcome = "resolved" THEN originate("single") ELSE originateFailed
          /\ createCalls' = [createCalls EXCEPT ![d.element].status =
                                 IF outcome = "resolved" THEN 200 ELSE 500]
    /\ UNCHANGED ivrVars
    /\ UNCHANGED <<trunkVars, wsVars, channelVars, sessionVars, reconnectVars, lifecycleVars>>

CreateCallNext ==
    \/ FetcherLoads
    \/ ClientAssigns
    \/ CreateCall
    \/ Release
    \/ TtlExpire
    \/ TrunkTick
    \/ Wake
    \/ SleepElapses
    \/ CallJobDone

(***************************************************************************)
(*                            Specifications                               *)
(***************************************************************************)

\* The calls that arrive within one TTL of the first: no timer comes due.
TrunkBurstNext ==
    \/ UpdateInventory
    \/ AssignBurst
    \/ KeepAlive
    \/ Release

\* Assignments up to the cap of a trunk, under inventory refreshes.
AssignNext ==
    \/ UpdateInventory
    \/ AssignBurst

\* The submissions of a burst and the jobs that end within it: no spacing
\* delay elapses.
QueueBurstNext ==
    \/ EnqueueBurst
    \/ JobDone

\* The connection to the PBX with the service being stopped.
StopNext ==
    \/ ServerRegister
    \/ PbxSocketOpen
    \/ PbxSocketError
    \/ PbxSocketClose
    \/ ReconnectTimerFires
    \/ ReconnectTick
    \/ PbxStop

\* The queue manager with the sleeps of its drainers running out.
QueueLiveNext ==
    \/ Enqueue
    \/ Wake
    \/ JobDone
    \/ QueueTick
    \/ SleepElapses

Init == TrunkInit /\ QueueInit /\ WsInit /\ ChannelInit /\ SessionInit
          /\ AriInit /\ IvrInit /\ ReconnectInit /\ LifecycleInit

SpecTrunk == Init /\ [][TrunkNext]_vars

SpecTrunkBurst == Init /\ [][TrunkBurstNext]_vars

SpecAssign == Init /\ [][AssignNext]_vars

SpecQueue == Init /\ [][QueueNext]_vars

\* Timers fire when due, time passes while a drainer sleeps, and every job
\* that was started completes or fails.
SpecQueueLive ==
    /\ Init
    /\ [][QueueLiveNext]_vars
    /\ WF_vars(Wake)
    /\ WF_vars(JobDone)
    /\ WF_vars(SleepElapses)

SpecQueueBurst == Init /\ [][QueueBurstNext]_vars

SpecWs == Init /\ [][WsNext]_vars

SpecChannel == Init /\ [][ChannelNext]_vars

SpecSession == Init /\ [][SessionNext]_vars

SpecEvents == Init /\ [][EventsNext]_vars

SpecReconnect == Init /\ [][ReconnectNext]_vars

SpecStop == Init /\ [][StopNext]_vars

SpecCreateCall == Init /\ [][CreateCallNext]_vars

SpecIvr == Init /\ [][IvrNext]_vars

SpecCallStore == Init /\ [][StoreNext]_vars

SpecLifecycle == Init /\ [][LifecycleNext]_vars

(***************************************************************************)
(*                         Properties: TrunkStore                          *)
(***************************************************************************)

\* The live assignments that point at a trunk id.
LiveOn(trunkId) ==
    Cardinality({ a \in DOMAIN assignments : assignments[a].trunk_id = trunkId })

\* The trunk ids of the current inventory.
InventoryTrunkIds ==
    UNION { { trunksByUserToken[k][i].trunk_id : i \in 1..Len(trunksByUserToken[k]) } :
              k \in DOMAIN trunksByUserToken }

\* C1: in every reachable state, for every trunk_id of the current inventory,
\* usage[trunk_id] equals the number of live assignments on that trunk, also
\* when the trunk was absent from one refresh and is present again in a later
\* one while an assignment on it is still live.
C1_UsageEqualsLiveAssignments ==
    \A t \in InventoryTrunkIds :
        /\ t \in DOMAIN trunkUsageCount
        /\ trunkUsageCount[t] = LiveOn(t)

\* C2: the number of simultaneously live assignments on a custom_/telnyx_
\* trunk whose verification flag stays constant never exceeds its cap (9 if
\* verified, otherwise 4), for any interleaving of assign, release and
\* inventory refresh.
C2_LiveAssignmentsWithinCap ==
    \A a \in DOMAIN assignments :
        \/ getMaxUsageForTrunk(assignments[a].trunk_data) = Infinity
        \/ LiveOn(assignments[a].trunk_id) <= getMaxUsageForTrunk(assignments[a].trunk_data)

\* C5: when the TTL timer of an assignment fires, it does so 120 s after the
\* assignment was created or last kept alive, the assignment is removed and
\* the usage of its trunk goes down by exactly one.
C5_ExpiryReleasesExactlyOnce ==
    [][ (trunkReturn'.op = "expire" /\ trunkReturn'.id \in DOMAIN assignments) =>
          LET a == assignments[trunkReturn'.id] IN
          /\ trunkNow = a.assigned_at + ASSIGNMENT_TTL_MS
          /\ trunkReturn'.id \notin DOMAIN assignments'
          /\ a.trunk_id \in DOMAIN trunkUsageCount =>
                /\ a.trunk_id \in DOMAIN trunkUsageCount'
                /\ trunkUsageCount'[a.trunk_id] = trunkUsageCount[a.trunk_id] - 1
      ]_vars

\* C6: a release (explicit or by the TTL timer) of an id that is not in the
\* store returns the not-found result and leaves the usage counters, the
\* assignment map and the timers unchanged; a release of a live id removes it
\* and takes at most one off the usage of its trunk, never below 0.
C6_ReleaseIsIdempotent ==
    [][ trunkReturn'.op \in {"release", "expire"} =>
          LET id == trunkReturn'.id IN
          IF id \in DOMAIN assignments
          THEN LET t == assignments[id].trunk_id
                   before == MapGetOr(trunkUsageCount, t, 0)
                   after == MapGetOr(trunkUsageCount', t, 0)
               IN
               /\ trunkReturn'.success
               /\ id \notin DOMAIN assignments'
               /\ assignments[id].timeout_id \notin DOMAIN ttlTimers'
               /\ after >= 0 /\ after <= before /\ before - after <= 1
               /\ \A u \in DOMAIN trunkUsageCount \ {t} :
                     u \in DOMAIN trunkUsageCount' /\ trunkUsageCount'[u] = trunkUsageCount[u]
          ELSE /\ trunkUsageCount' = trunkUsageCount
               /\ assignments' = assignments
               /\ ttlTimers' = ttlTimers
               /\ (trunkReturn' # trunkReturn) => ~trunkReturn'.success
      ]_vars

\* A second release was asked for an id the store had handed out, and was
\* answered with the not-found result.
C6_Witness ==
    /\ trunkReturn.op = "release"
    /\ ~trunkReturn.success
    /\ trunkReturn.id < nextUuid
    /\ DOMAIN assignments # {}

\* C7: exactly one TTL timer is armed for each live assignment, no TTL timer
\* is armed for an id that is not in the store, and no usage counter is
\* negative.
C7_OneTimerPerLiveAssignment ==
    /\ \A a \in DOMAIN assignments :
          /\ Cardinality({ t \in DOMAIN ttlTimers : ttlTimers[t].assignmentId = a }) = 1
          /\ assignments[a].timeout_id \in DOMAIN ttlTimers
          /\ ttlTimers[assignments[a].timeout_id].assignmentId = a
    /\ \A t \in DOMAIN ttlTimers : ttlTimers[t].assignmentId \in DOMAIN assignments
    /\ \A t \in DOMAIN trunkUsageCount : trunkUsageCount[t] >= 0

\* One assignment was released and another, kept alive after it was created,
\* is live.
C7_Witness ==
    /\ \E id \in 1..(nextUuid - 1) : id \notin DOMAIN assignments
    /\ \E a \in DOMAIN assignments :
          /\ assignments[a].assigned_at > 0
          /\ trunkReturn = [op |-> "keepAlive", id |-> a, success |-> TRUE]

(***************************************************************************)
(*                        Properties: QueueManager                         *)
(***************************************************************************)

\* The jobs of a trunk that have started and whose promise is not settled.
InFlight(startedJobs, settledJobs, trunkId) ==
    { i \in 1..Len(startedJobs[trunkId]) : startedJobs[trunkId][i] \notin DOMAIN settledJobs }

\* The jobs of a trunk in the order enqueue accepted them.
AcceptedJobs(trunkId) ==
    [i \in 1..Len(accepted[trunkId]) |-> accepted[trunkId][i].job]

\* C3: a job of a trunk starts at least 1.1 s after the previous job of the
\* same trunk completed or failed, and at most one job per trunk is in flight
\* at any time, for any interleaving of enqueue calls.
C3_SpacingAndOneInFlight ==
    [][ \A t \in QueueTrunks :
          /\ Cardinality(InFlight(started', settled', t)) <= 1
          /\ started'[t] # started[t] =>
                \/ lastEndAt'[t] = NoTime
                \/ queueNow' - lastEndAt'[t] >= PROCESS_DELAY
      ]_vars

\* A second job of a trunk has started after the first one failed.
C3_Witness ==
    \E t \in QueueTrunks :
        /\ Len(started[t]) >= 2
        /\ started[t][1] \in DOMAIN settled
        /\ settled[started[t][1]] = "rejected"

\* C4: the jobs of a trunk start in exactly the order in which their enqueue
\* calls were accepted, including jobs enqueued while the drainer sleeps for
\* the spacing delay or while the head job is running.
C4_StartsInAcceptanceOrder ==
    \A t \in QueueTrunks :
        /\ Len(started[t]) <= Len(accepted[t])
        /\ started[t] = SubSeq(AcceptedJobs(t), 1, Len(started[t]))

\* A job enqueued while the drainer slept and a job enqueued while the head
\* job ran have both started.
C4_Witness ==
    \E t \in QueueTrunks :
        \E i, j \in 1..Len(started[t]) :
            /\ accepted[t][i].drainer = "sleeping"
            /\ accepted[t][j].drainer = "running"

(***************************************************************************)
(*                      Properties: WebSocketService                       *)
(***************************************************************************)

\* The open sockets of a call id on which the service listens for messages.
OpenSessions(callId) ==
    { ws \in DOMAIN sockets :
        /\ sockets[ws].callId = callId
        /\ sockets[ws].readyState = "OPEN"
        /\ sockets[ws].handlers }

\* C8: for every call_id at most one open push socket is registered or
\* receiving messages at any time, for every interleaving of connects, close
\* events (that of a previously replaced socket included) and sends.
C8_OneOpenSocketPerCall ==
    \A c \in CallIds : Cardinality(OpenSessions(c)) <= 1

\* How many times a message was delivered, over all sockets.
Deliveries(socks, message) ==
    Cardinality({ <<ws, i>> \in (DOMAIN socks) \X (1..MaxMessages + 1) :
                    i <= Len(socks[ws].received) /\ socks[ws].received[i] = message })

\* C9: a message sent while no open socket exists for its call_id replaces
\* the buffered one; the next socket attached for the call_id receives exactly
\* the buffered message, once, and the buffer of the call_id is empty
\* afterwards; a message that was replaced in the buffer is never delivered.
C9_LatestBufferedMessageFlushedOnce ==
    [][ /\ wsReturn' # wsReturn =>
             LET c == wsReturn'.callId IN
             (~\E ws \in DOMAIN sockets :
                  sockets[ws].callId = c /\ sockets[ws].readyState = "OPEN") =>
                /\ ~wsReturn'.sent
                /\ c \in DOMAIN pendingMessages'
                /\ pendingMessages'[c] = wsReturn'.message
        /\ \A ws \in DOMAIN sockets' \ DOMAIN sockets :
             LET c == sockets'[ws].callId IN
             (sockets'[ws].handlers /\ c \in DOMAIN pendingMessages) =>
                /\ sockets'[ws].received = <<pendingMessages[c]>>
                /\ c \notin DOMAIN pendingMessages'
        /\ \A m \in wsDropped' : Deliveries(sockets', m) = 0
        /\ \A m \in 1..MaxMessages : Deliveries(sockets', m) <= 1
      ]_vars

\* A buffered message was replaced by a later one, and the later one, the
\* last a caller sent, reached a socket attached afterwards.
C9_Witness ==
    /\ wsDropped # {}
    /\ ~wsReturn.sent
    /\ \E ws \in DOMAIN sockets :
          /\ sockets[ws].handlers
          /\ sockets[ws].received = <<wsReturn.message>>
    /\ pendingMessages = EmptyMap

(***************************************************************************)
(*                       Properties: ChannelManager                        *)
(***************************************************************************)

\* C10: once destroy has run, whatever DTMF, playback_finished, timer and
\* set_action events are delivered to the session afterwards, no session
\* timer fires, no timer is armed and no PBX call (play, stopPlayback, hangup)
\* or action-script fetch is issued by it; the destroyed flag stays set and a
\* second destroy changes nothing.
C10_DestroyedSessionIsInert ==
    [][ channel.isDestroyed =>
          /\ channel'.isDestroyed
          /\ destroy(channel) = channel
          /\ ( /\ channelEvent'.type \in {"dtmf", "playback_finished", "set_action", "timer"}
               /\ <<channel, channelEvent>>' # <<channel, channelEvent>> ) =>
                /\ channelEvent'.type # "timer"
                /\ channel'.log = <<>>
      ]_vars

(***************************************************************************)
(*               Properties: ChannelManager handler scheduling             *)
(***************************************************************************)

\* C11: within one session the handlers of DTMF, playback_finished, timer
\* and set_action events run one at a time: none of them starts while
\* another one is suspended at a PBX call or at a fetch, so at any time at
\* most one of them has started and not yet returned.
C11_HandlersRunOneAtATime ==
    Cardinality({ h \in suspended : h.event \in SessionEvents }) <= 1

(***************************************************************************)
(*              Properties: ARIEventHandler and ARIService                 *)
(***************************************************************************)

\* The PBX events of `type` and `id` in the history, by position.
PbxEventsOf(type, id) ==
    { i \in 1..Len(pbxLog) : pbxLog[i].type = type /\ pbxLog[i].id = id }

\* C12: of the PlaybackFinished events of one playback id, those that arrive
\* within 30 s of one that was passed on as playback_finished are not passed
\* on, one that is not passed on has such a predecessor, and the manager's
\* onPlaybackFinished runs only for an event that was passed on.
C12_OnePlaybackFinishedPerWindow ==
    \A pbId \in PlaybackIds :
       \A j \in PbxEventsOf("PlaybackFinished", pbId) :
          LET earlier == { i \in PbxEventsOf("PlaybackFinished", pbId) :
                             i < j /\ pbxLog[i].emitted }
          IN  /\ pbxLog[j].emitted =>
                   \A i \in earlier : pbxLog[j].at - pbxLog[i].at >= PLAYBACK_FORGET_MS
              /\ ~pbxLog[j].emitted =>
                   \E i \in earlier : pbxLog[j].at - pbxLog[i].at <= PLAYBACK_FORGET_MS
              /\ pbxLog[j].handled => pbxLog[j].emitted

\* A playback id reported three times: passed on to the manager, dropped
\* 15 s later, and passed on again after the window.
C12_Witness ==
    \E pbId \in PlaybackIds :
       \E i, j, k \in PbxEventsOf("PlaybackFinished", pbId) :
          /\ i < j /\ j < k
          /\ pbxLog[i].emitted /\ pbxLog[i].handled
          /\ ~pbxLog[j].emitted /\ pbxLog[j].at > pbxLog[i].at
          /\ pbxLog[k].emitted

\* C13: of the hangup notices of one channel, those that arrive within 30 s
\* of one that was handled (completed pushed, cleanupCall run) are not
\* handled, one that is not handled has such a predecessor, and the channel
\* id is in completedChannels exactly until 30 s after the handling.
C13_OneHangupHandlingPerWindow ==
    \A channelId \in 1..MaxCalls :
       /\ \A j \in PbxEventsOf("hangup", channelId) :
             LET earlier == { i \in PbxEventsOf("hangup", channelId) :
                                i < j /\ pbxLog[i].handled }
             IN  /\ pbxLog[j].handled =>
                      \A i \in earlier : pbxLog[j].at - pbxLog[i].at >= COMPLETED_FORGET_MS
                 /\ ~pbxLog[j].handled =>
                      \E i \in earlier : pbxLog[j].at - pbxLog[i].at <= COMPLETED_FORGET_MS
       /\ channelId \in completedChannels <=>
             \E j \in PbxEventsOf("hangup", channelId) :
                /\ pbxLog[j].handled
                /\ ariNow <= pbxLog[j].at + COMPLETED_FORGET_MS
                /\ [set |-> "completedChannels", id |-> channelId,
                    due |-> pbxLog[j].at + COMPLETED_FORGET_MS] \in forgetTimers
       /\ channelId \in completedChannels => channelId \notin managers

\* A channel whose hangup was handled, whose second notice 15 s later was
\* not, and whose id has left completedChannels.
C13_Witness ==
    \E channelId \in 1..MaxCalls :
       \E i, j \in PbxEventsOf("hangup", channelId) :
          /\ i < j
          /\ pbxLog[i].handled
          /\ ~pbxLog[j].handled /\ pbxLog[j].at > pbxLog[i].at
          /\ channelId \notin completedChannels
          /\ channelId \notin DOMAIN calls

(***************************************************************************)
(*                  Properties: QueueManager, limit and errors             *)
(***************************************************************************)

\* C14: an enqueue on a trunk whose queue holds 50 jobs fails with the
\* queue-full error and leaves the queues, the drainers and the histories
\* of accepted and started jobs as they were; an enqueue on a shorter queue
\* is accepted; no queue grows beyond 50 and only accepted jobs are queued
\* or started.
C14_FullQueueRejects ==
    [][ /\ \A t \in DOMAIN queues' : Len(queues'[t]) <= QUEUE_LIMIT
        /\ \A t \in QueueTrunks :
              \A i \in 1..Len(started'[t]) :
                 \E k \in 1..Len(accepted'[t]) : accepted'[t][k].job = started'[t][i]
        /\ enqueueReturn' # enqueueReturn =>
              IF Len(MapGetOr(queues, enqueueReturn'.trunkId, <<>>)) >= 50
              THEN /\ enqueueReturn'.result = "queue_full"
                   /\ UNCHANGED <<queues, drainers, processing, lastCallTime,
                                  accepted, started, settled>>
              ELSE enqueueReturn'.result = "accepted"
      ]_vars

\* The 51st submission to a trunk was refused while its 50 jobs were queued.
C14_Witness ==
    /\ enqueueReturn.result = "queue_full"
    /\ Len(queues[enqueueReturn.trunkId]) = 50
    /\ Len(accepted[enqueueReturn.trunkId]) = 50

\* C15: when the job at the head of a trunk's queue fails, the promise of
\* that job and of no other is rejected, the job leaves the queue, the time
\* of the failure becomes the trunk's last call time, and the drainer goes
\* on: with jobs left it sleeps until 1.1 s after the failure before it
\* calls the next one, without jobs it returns.
C15_FailureIsIsolatedAndCounted ==
    [][ \A t \in QueueTrunks :
          \A d \in drainers :
             ( /\ d.trunkId = t
               /\ d.pc = "running"
               /\ d.element \notin DOMAIN settled
               /\ d.element \in DOMAIN settled'
               /\ settled'[d.element] = "rejected" ) =>
                  /\ d.element = queues[t][1]
                  /\ DOMAIN settled' = DOMAIN settled \cup {d.element}
                  /\ \A j \in DOMAIN settled : settled'[j] = settled[j]
                  /\ queues'[t] = Tail(queues[t])
                  /\ lastCallTime'[t] = queueNow
                  /\ \A u \in DOMAIN queues \ {t} : queues'[u] = queues[u]
                  /\ IF queues'[t] = <<>>
                     THEN /\ t \notin processing'
                          /\ \A e \in drainers' : e.trunkId # t
                     ELSE /\ t \in processing'
                          /\ \E e \in drainers' :
                                /\ e.trunkId = t
                                /\ e.pc = "sleeping"
                                /\ e.wakeAt = queueNow + PROCESS_DELAY
      ]_vars

\* The first job of a trunk failed and the job queued behind it ran to
\* completion.
C15_Witness ==
    \E t \in QueueTrunks :
        /\ Len(started[t]) >= 2
        /\ started[t][1] \in DOMAIN settled
        /\ settled[started[t][1]] = "rejected"
        /\ started[t][2] \in DOMAIN settled
        /\ settled[started[t][2]] = "resolved"

(***************************************************************************)
(*                 Properties: reconnection to the PBX                     *)
(***************************************************************************)

\* C16: after the event stream of a server disconnects at most 5 reconnect
\* attempts are made before one succeeds, consecutive attempts are at least
\* 5 s apart, and server_failed is emitted at most once.
C16_BoundedSpacedReconnects ==
    [][ /\ retriesSinceOpen' <= 5
        /\ serverFailed' <= 1
        /\ (connects' # connects /\ connects >= 1) =>
              reconnectNow' - lastConnectAt >= 5000
      ]_vars

(***************************************************************************)
(*                     The IVR decisions (C17 - C19)                       *)
(***************************************************************************)

\* This step received POST /otp/validate/callId with the given isValid for a
\* call the store holds.
Decided(callId, isValid) ==
    /\ nextRequest' # nextRequest
    /\ request'.kind = "validate"
    /\ request'.callId = callId
    /\ request'.isValid = isValid
    /\ callId \in DOMAIN calls

\* The handler of this step passes the message to sendToCallId, now or when
\* it resumes.
Pushes(message) ==
    \/ pushed' = <<message>>
    \/ \E v \in validating' \ validating : v.message = message

\* This step called setChannelAction(callId, .../action/<targetAction>), which
\* hands the URL to the call's session if it has one.
Steers(callId, targetAction) ==
    steered' = [callId |-> callId,
                url |-> [base |-> "http://localhost:3000/action/", status |-> targetAction],
                found |-> callId \in managers]

\* a handler that resumes pushes the message it was suspended with
ResumedPush == \A v \in validating \ validating' : pushed' = <<v.message>>

C18_SingleGatherMenuAndCompletion ==
    [][ /\ \A c \in DOMAIN calls :
              "gather1" \notin Steps(calls[c].campaign) =>
                 /\ ( /\ nextRequest' # nextRequest
                      /\ request'.kind = "action"
                      /\ request'.callId = c
                      /\ request'.status = "options"
                      /\ request'.digits # "" ) =>
                        /\ calls'[c].selectedOption =
                              IF request'.digits = "1" THEN "1" ELSE "2"
                        /\ {"option1", "option2"} \subseteq Steps(calls[c].campaign) =>
                              response' = [kind |-> "script",
                                           status |-> IF request'.digits = "1"
                                                      THEN "option1" ELSE "option2",
                                           campaign |-> calls[c].campaign]
                 /\ Decided(c, "true") =>
                        /\ calls[c].selectedOption = "1" => Steers(c, "completed_option1")
                        /\ calls[c].selectedOption = "2" => Steers(c, "completed_option2")
                        /\ calls[c].selectedOption = "" => Steers(c, "completed")
        /\ \A c \in DOMAIN calls' :
              "gather1" \notin Steps(calls'[c].campaign) => calls'[c].gatherStage = ""
      ]_vars

\* A caller of a menu campaign pressed a digit other than 1, and the valid
\* decision that followed steered the session to completed_option2.
C18_Witness ==
    /\ request.kind = "validate"
    /\ request.isValid = "true"
    /\ request.callId \in DOMAIN calls
    /\ calls[request.callId].campaign = "venmo_fraude"
    /\ calls[request.callId].selectedOption = "2"
    /\ response = [kind |-> "script", status |-> "option2", campaign |-> "venmo_fraude"]
    /\ steered.callId = request.callId
    /\ steered.url.status = "completed_option2"
    /\ steered.found

\* C19: isValid = false never advances gather_stage: a campaign without
\* gather1 is steered to /action/invalid, {OtpValidation: "invalid"} is
\* pushed and gather_stage stays unset; a campaign with gather1 and
\* gather_stage unset or first gets gather_stage first and is steered to
\* /action/invalid; with gather_stage second it stays second and the session
\* is steered back to /action/gather1.
C19_InvalidDecisionNeverAdvances ==
    [][ /\ ResumedPush
        /\ \A c \in DOMAIN calls :
              Decided(c, "false") =>
                 IF "gather1" \notin Steps(calls[c].campaign)
                 THEN /\ Steers(c, "invalid")
                      /\ Pushes([callId |-> c, OtpValidation |-> "invalid"])
                      /\ calls[c].gatherStage = ""
                      /\ calls'[c] = calls[c]
                 ELSE /\ calls[c].gatherStage \in {"", "first"} =>
                            /\ calls'[c] = [calls[c] EXCEPT !.gatherStage = "first"]
                            /\ Steers(c, "invalid")
                      /\ calls[c].gatherStage = "second" =>
                            /\ calls'[c] = calls[c]
                            /\ Steers(c, "gather1")
      ]_vars

\* A two-gather call in its second round got an invalid decision and was
\* steered back to gather1.
C19_Witness ==
    /\ request.kind = "validate"
    /\ request.isValid = "false"
    /\ request.callId \in DOMAIN calls
    /\ calls[request.callId].campaign = "two_gather"
    /\ calls[request.callId].gatherStage = "second"
    /\ steered.callId = request.callId
    /\ steered.url.status = "gather1"
    /\ steered.found

(***************************************************************************)
(*                   The lifetime of a CallData (C20)                      *)
(***************************************************************************)

\* when the record of a call was last written: by saveCall or by an update
LastActivity(uuid) ==
    IF uuid \in DOMAIN lastWrite THEN lastWrite[uuid] ELSE calls[uuid].created_at

\* C20: a CallData is removed only by the cleanup of a hangup or by the
\* sweeper; a sweep leaves every record that was written less than 15
\* minutes ago and removes every record not written for more than 15
\* minutes.
C20_SweptOnlyAfterFifteenIdleMinutes ==
    [][ /\ \A uuid \in DOMAIN calls \ DOMAIN calls' :
              sweepDue' # sweepDue \/ uuid \in completedChannels' \ completedChannels
        /\ sweepDue' # sweepDue =>
              \A uuid \in DOMAIN calls :
                 /\ ariNow - LastActivity(uuid) < 15 * 60 * 1000 => uuid \in DOMAIN calls'
                 /\ ariNow - LastActivity(uuid) > 15 * 60 * 1000 => uuid \notin DOMAIN calls'
      ]_vars

\* The channels whose first channel_hangup was handled.
CleanedUp == {pbxLog[i].id : i \in
                 {j \in 1..Len(pbxLog) : pbxLog[j].type = "hangup" /\ pbxLog[j].handled}}

\* C21: after the first channel_hangup of a channel was handled, the CallStore
\* holds no record for the call, the channel registry holds no session for it
\* and the answer-time map holds no entry for it, whichever way the call ended.
C21_CleanAfterFirstHangup ==
    \A channelId \in CleanedUp :
        /\ channelId \notin DOMAIN calls
        /\ channelId \notin managers
        /\ channelId \notin DOMAIN channelAnswerTimes

(***************************************************************************)
(*                 Properties: ChannelManager timers and gathers           *)
(***************************************************************************)

\* The armed gather timers of a manager, and its armed post-playback timers
\* (the timeout of a prompt and the destroy after the last prompt).
GatherTimers(c) == { t \in DOMAIN c.timers : c.timers[t] = "gatherTimeout" }
PlaybackTimers(c) == { t \in DOMAIN c.timers : c.timers[t] # "gatherTimeout" }

\* C22: in every reachable state of a session at most one post-playback timer
\* and at most one gather timer are armed: a timer armed earlier of the kind
\* of a newly armed one has been cancelled.
C22_OneTimerOfEachKind ==
    /\ Cardinality(PlaybackTimers(session)) <= 1
    /\ Cardinality(GatherTimers(session)) <= 1

\* C23: while a prompt is playing no gather timer is armed (the timer of a
\* running gather is armed when the prompt has finished, or by gather when
\* nothing plays).
C23_NoGatherTimerWhilePlaying ==
    channel.isPlaying => GatherTimers(channel) = {}

\* The step in which the callee hangs up (no event is delivered in it).
CalleeHangsUp ==
    channel.channelUp /\ channel' = [channel EXCEPT !.channelUp = FALSE]

\* The step in which the manager handled the DTMF `digit`, the one in which
\* it handled the playback_finished of `playbackId`, and the one in which it
\* handled a set_action.
DtmfHandled(digit) ==
    channelEvent' = [type |-> "dtmf", digit |-> digit] /\ ~CalleeHangsUp

PlaybackFinishedHandled(playbackId) ==
    /\ channelEvent' = [type |-> "playback_finished", playbackId |-> playbackId]
    /\ ~CalleeHangsUp
    /\ ChannelId \in activeChannels

SetActionHandled ==
    channelEvent'.type = "set_action" /\ ~CalleeHangsUp

\* The gather of c took `digit`: it went on with the digit added, or it ended
\* and sent its digits, without a terminator, to its action.
TookDigit(c, digit, after) ==
    LET g == c.gatherInstance
        sent == IF g.finishOnKey # "" /\ digit = g.finishOnKey
                THEN g.digits ELSE Append(g.digits, digit)
    IN
    \/ /\ after.gatherInstance.running
       /\ after.gatherInstance.digits = Append(g.digits, digit)
       /\ \A i \in 1..Len(after.log) : after.log[i].call # "fetch"
    \/ \E i \in 1..Len(after.log) :
          /\ after.log[i].call = "fetch"
          /\ after.log[i].digits = sent
          /\ \A j \in 1..(i - 1) : after.log[j].call = "stopPlayback"

\* C24: every DTMF digit that arrives while a prompt plays, gather or no
\* gather, first stops the current playback; playing and playbackId are
\* cleared and the post-playback timer is cancelled; then the digit is
\* evaluated against the gather.
C24_BargeInIsUnconditional ==
    [][ \A digit \in Digits :
          (DtmfHandled(digit) /\ channel.isPlaying) =>
             /\ channel'.log # <<>>
             /\ Head(channel'.log) =
                   Outbound("stopPlayback", channel.playbackId, NoData, <<>>)
             /\ Len(channel'.log) = 1 =>
                   /\ ~channel'.isPlaying
                   /\ channel'.playbackId = 0
                   /\ channel'.timeoutHandle = 0
                   /\ PlaybackTimers(channel') = {}
             /\ channel.gatherInstance.running => TookDigit(channel, digit, channel')
      ]_vars

\* A digit has stopped a prompt no gather was waiting behind.
C24_Witness ==
    /\ channelEvent.type = "dtmf"
    /\ Len(channel.log) = 1
    /\ channel.log[1].call = "stopPlayback"
    /\ ~channel.gatherInstance.running
    /\ ~channel.isDestroyed

\* C25: a DTMF digit that arrives while nothing plays and no gather runs is
\* dropped without any change of the manager's state; an armed post-playback
\* timer stays armed.
C25_IdleDigitChangesNothing ==
    [][ \A digit \in Digits :
          (DtmfHandled(digit) /\ ~channel.isPlaying /\ ~channel.gatherInstance.running) =>
             /\ Delivered(channel') = Delivered(channel)
             /\ channel'.log = <<>>
      ]_vars

\* The DTMF handlers that go on after their barge-in in this step.
DigitsEvaluated ==
    { h \in suspended \ suspended' : h.event = "dtmf" /\ h.pc = "stopPlayback" }

\* C26: a gather without finishOnKey collects the digits in the order of
\* their arrival and ends exactly when it holds numDigits of them: it stops
\* running and its action is fetched once, with these digits.
C26_FixedLengthGatherInArrivalOrder ==
    [][ \A h \in DigitsEvaluated :
          LET g == session.gatherInstance
              collected == Append(g.digits, h.digit)
          IN  (g.running /\ g.finishOnKey = "") =>
                 /\ \A earlier \in suspended' :
                       ~(earlier.event = "dtmf" /\ earlier.pc = "stopPlayback"
                           /\ earlier.id < h.id)
                 /\ IF Len(collected) >= g.numDigits
                    THEN /\ ~session'.gatherInstance.running
                         /\ GatherTimers(session') = {}
                         /\ Len(session'.log) = 1
                         /\ session'.log[1].call = "fetch"
                         /\ session'.log[1].digits = collected
                    ELSE /\ session'.gatherInstance.running
                         /\ session'.gatherInstance.digits = collected
                         /\ session'.log = <<>>
      ]_vars

\* The fetches of the gather's action among the outbound calls of c.
GatherFetches(c) ==
    { i \in 1..Len(c.log) : c.log[i].call = "fetch" /\ c.log[i].url.path = "/gather" }

\* C27: a gather with a finishOnKey is ended by no digit but the terminator,
\* however many digits it holds; the terminator stops it, cancels its timer
\* and fetches its action with the digits collected before, which never
\* contain the terminator.
C27_DynamicGatherEndsOnTerminator ==
    [][ \A digit \in Digits :
          LET g == channel.gatherInstance IN
          (DtmfHandled(digit) /\ g.running /\ g.finishOnKey # "") =>
             /\ \A i \in 1..Len(g.digits) : g.digits[i] # g.finishOnKey
             /\ IF digit = g.finishOnKey
                THEN /\ channel'.gatherInstance.running =>
                           channel'.gatherInstance.digits = <<>>
                     /\ GatherTimers(channel') = {}
                     /\ Cardinality(GatherFetches(channel')) = 1
                     /\ \A i \in GatherFetches(channel') : channel'.log[i].digits = g.digits
                ELSE /\ channel'.gatherInstance.running
                     /\ channel'.gatherInstance.digits = Append(g.digits, digit)
                     /\ GatherFetches(channel') = {}
      ]_vars

\* A gather took the terminator after one digit and sent that digit alone.
C27_Witness ==
    /\ channelEvent = [type |-> "dtmf", digit |-> "#"]
    /\ \E i \in GatherFetches(channel) : channel.log[i].digits = <<"1">>

\* The fields of the manager: c without the playbacks of the PBX and without
\* the outbound calls of its last handler.
Fields(c) == [c EXCEPT !.playbacks = {}, !.log = <<>>]

\* C28: a playback_finished whose playback id differs from the current
\* playbackId of the manager is ignored in every state, also when the
\* playbackId was cleared by a barge-in or by destroy: playing, the timers,
\* the gather and the remaining actions stay as they are.
C28_LatePlaybackFinishedIsIgnored ==
    [][ \A playbackId \in channel.playbacks :
          (PlaybackFinishedHandled(playbackId) /\ playbackId # channel.playbackId) =>
             /\ Fields(channel') = Fields(channel)
             /\ channel'.log = <<>>
      ]_vars

\* The manager with the gather of its current script ended: not running,
\* its timer cancelled.
Overridden(c) ==
    [c EXCEPT !.gatherInstance.running = FALSE,
              !.timers = MapDel(@, c.gatherInstance.timeout)]

\* C29: set_action overrides the current wait: once it has loaded the new
\* script and started it, the manager is as if the gather of the previous
\* script had ended before (not running, its timer cancelled), and no timer
\* armed before the set_action is left.
C29_SetActionOverridesTheWait ==
    [][ (SetActionHandled /\ \E i \in 1..Len(channel'.log) : channel'.log[i].call = "play") =>
           /\ channel' \in setAction(Delivered(Overridden(channel)), ConfirmUrl)
           /\ Cardinality(DOMAIN channel'.timers) <=
                 Cardinality({ i \in 1..Len(channel'.log) : channel'.log[i].call = "setTimeout" })
      ]_vars

(***************************************************************************)
(*                    Properties: TrunkStore.assignTrunk                   *)
(***************************************************************************)

\* The positions, in the inventory of the dash-normalized token, of the
\* trunks whose usage is below their cap (a trunk without cap always is).
BelowCap(userToken) ==
    LET key == RemoveDashes(userToken)
        trunks == IF key \in DOMAIN trunksByUserToken THEN trunksByUserToken[key] ELSE <<>>
        cap(trunk) == IF trunk.trunk_id[1] \in {"telnyx_", "custom_"}
                      THEN IF trunk.is_verified THEN 9 ELSE 4
                      ELSE Infinity
        usage(trunk) == IF trunk.trunk_id \in DOMAIN trunkUsageCount
                        THEN trunkUsageCount[trunk.trunk_id] ELSE 0
    IN  { i \in 1..Len(trunks) : cap(trunks[i]) = Infinity \/ usage(trunks[i]) < cap(trunks[i]) }

\* The step is a call of assignTrunk.
AssignCalled ==
    trunkReturn'.op = "assign" /\ (trunkReturn' # trunkReturn \/ nextUuid' # nextUuid)

\* C30: assignTrunk(user_token) takes the first trunk, in the inventory order
\* of the dash-normalized token, whose usage is below its cap: it raises the
\* usage of this trunk alone by one and creates one assignment for it; when
\* no trunk qualifies it returns success false and changes neither the
\* inventory nor the usage counters, the assignments or the timers.
C30_AssignTakesFirstTrunkBelowCap ==
    [][ AssignCalled =>
          LET userToken == trunkReturn'.userToken
              below == BelowCap(userToken)
          IN  IF below = {}
              THEN /\ ~trunkReturn'.success
                   /\ UNCHANGED <<trunksByUserToken, trunkUsageCount, assignments, ttlTimers>>
              ELSE LET first == trunksByUserToken[RemoveDashes(userToken)]
                                   [CHOOSE i \in below : \A j \in below : i <= j]
                       id == trunkReturn'.id
                   IN  /\ trunkReturn'.success
                       /\ id \notin DOMAIN assignments
                       /\ DOMAIN assignments' = DOMAIN assignments \cup {id}
                       /\ \A a \in DOMAIN assignments : assignments'[a] = assignments[a]
                       /\ assignments'[id].trunk_id = first.trunk_id
                       /\ assignments'[id].trunk_data = first
                       /\ DOMAIN trunkUsageCount' = DOMAIN trunkUsageCount \cup {first.trunk_id}
                       /\ \A t \in DOMAIN trunkUsageCount' :
                             trunkUsageCount'[t] =
                                (IF t \in DOMAIN trunkUsageCount THEN trunkUsageCount[t] ELSE 0)
                                   + (IF t = first.trunk_id THEN 1 ELSE 0)
                       /\ UNCHANGED trunksByUserToken
      ]_vars

\* The first trunk of the user was at its cap and the second one was assigned;
\* the token was given with its dash.
C30_Witness ==
    /\ trunkReturn.op = "assign"
    /\ trunkReturn.success
    /\ trunkReturn.userToken = UserU
    /\ trunkReturn.id \in DOMAIN assignments
    /\ assignments[trunkReturn.id].trunk_id = TwilioB.trunk_id
    /\ CustomA.trunk_id \in DOMAIN trunkUsageCount
    /\ trunkUsageCount[CustomA.trunk_id] = MAX_TRUNK_USAGE
    /\ RemoveDashes(UserU) \in DOMAIN trunksByUserToken
    /\ trunksByUserToken[RemoveDashes(UserU)] = <<CustomA, TwilioB>>

(***************************************************************************)
(* Properties: WebSocketService.closeConnection                            *)
(***************************************************************************)

\* The step is the run of a scheduled closeConnection(callId).
CloseRan == closeTimers # <<>> /\ closeTimers' = Tail(closeTimers)

\* C31: after closeConnection(callId) has run, in particular as the close
\* scheduled at the end of the call, the service holds no state for the call
\* id: no entry in connections and no entry in pendingMessages, so that a
\* socket attaching later with this call id is sent nothing buffered before.
C31_ClosedCallHoldsNoState ==
    [][ CloseRan =>
          /\ Head(closeTimers) \notin DOMAIN connections'
          /\ Head(closeTimers) \notin DOMAIN pendingMessages'
      ]_vars

(***************************************************************************)
(* Properties: ARIEventHandler, one event stream per PBX server            *)
(***************************************************************************)

\* C32: at any time at most one WebSocket of connectToServer, open or being
\* established, exists for a PBX server: one failure, reported by 'error' and
\* by 'close', does not lead to two connections that both deliver the events
\* of the server.
C32_OneEventStreamPerServer ==
    pbxSockets["CONNECTING"] + pbxSockets["OPEN"] <= 1

(***************************************************************************)
(* Properties: QueueManager, one drainer per trunk                         *)
(***************************************************************************)

\* The processQueue invocations of a trunk that have not returned.
DrainersOf(trunkId) == { d \in drainers : d.trunkId = trunkId }

\* The job was accepted by enqueue.
IsAccepted(job) ==
    \E t \in QueueTrunks : \E i \in 1..Len(accepted[t]) : accepted[t][i].job = job

\* The job was started.
IsStarted(job) ==
    \E t \in QueueTrunks : \E i \in 1..Len(started[t]) : started[t][i] = job

\* C33: the queue of a trunk goes idle, draining, idle with one drainer: a
\* trunk never has two processQueue invocations, a trunk whose queue is not
\* empty has one, and a trunk in `processing` has one; and when every started
\* job completes or fails, every accepted job is started and the promise
\* enqueue returned for it is settled: at every moment a later one comes at
\* which this is so for all the jobs accepted until then.
C33_OneDrainerAndProgress ==
    /\ [](\A t \in QueueTrunks :
            /\ Cardinality(DrainersOf(t)) <= 1
            /\ Len(MapGetOr(queues, t, <<>>)) > 0 => Cardinality(DrainersOf(t)) = 1
            /\ t \in processing => Cardinality(DrainersOf(t)) = 1)
    /\ []<>(\A job \in 1..MaxJobs :
               IsAccepted(job) => (IsStarted(job) /\ job \in DOMAIN settled))

\* A trunk has gone idle, draining, idle twice: its second job was accepted
\* with no drainer after the first one had completed, both are settled, and
\* the trunk is idle again.
C33_Witness ==
    \E t \in QueueTrunks :
        /\ Len(accepted[t]) >= 2
        /\ accepted[t][2].drainer = "none"
        /\ \A i \in 1..Len(accepted[t]) : accepted[t][i].job \in DOMAIN settled
        /\ t \notin processing
        /\ DrainersOf(t) = {}
        /\ queues[t] = <<>>

(***************************************************************************)
(* Properties: /otp/validate for a call that is not there                  *)
(***************************************************************************)

\* This step received POST /otp/validate/callId.
ValidationPosted(callId) ==
    /\ nextRequest' # nextRequest
    /\ request'.kind = "validate"
    /\ request'.callId = callId

\* C34: a validation decision posted for a call id without a record in the
\* call store or without a session in activeChannels is answered not_found
\* and not success, steers no session, passes no message to sendToCallId (so
\* that no pending buffer changes) and leaves the call store as it was.
C34_UnknownCallIsNotFound ==
    [][ \A callId \in 1..MaxCalls :
          (ValidationPosted(callId) /\ (callId \notin DOMAIN calls \/ callId \notin managers)) =>
             /\ validateResponse(callId, request'.isValid).status = "not_found"
             /\ ~validateResponse(callId, request'.isValid).success
             /\ steered' # steered => ~steered'.found
             /\ pushed' = <<>>
             /\ validating' = validating
             /\ calls' = calls
      ]_vars

(***************************************************************************)
(* Properties: ARIEventHandler.disconnectAll                               *)
(***************************************************************************)

Orphaned == ChannelId \notin activeChannels /\ ~channel.isDestroyed

\* C36: once channel_hangup has been handled for a channel, its manager
\* removed from activeChannels without destroy, no gather timer and no
\* post-playback timer of the manager is armed, and the manager makes no PBX
\* call and fetches no action script any more.
C36_HungUpSessionIsQuiet ==
    [][ /\ Orphaned' => channel'.timers = EmptyMap
        /\ Orphaned => channel'.log = <<>>
      ]_vars

(***************************************************************************)
(* Properties: the two rounds of a two-gather campaign                     *)
(***************************************************************************)

\* The request before this one was a valid decision for the call.
ValidJustBefore(callId) ==
    /\ request.kind = "validate"
    /\ request.callId = callId
    /\ request.isValid = "true"

\* C37: the session of a call of a two-gather campaign is steered to
\* /action/completed only after /action/gather1 was requested with Digits for
\* the call, whatever decisions and action requests arrive; a valid decision
\* that directly follows a valid decision for the same call does not steer
\* the session to completed.
C37_CompletedOnlyAfterSecondRound ==
    [][ \A c \in DOMAIN calls :
          "gather1" \in Steps(calls[c].campaign) =>
             /\ (\E isValid \in IsValidInputs : Decided(c, isValid) /\ Steers(c, "completed"))
                   => c \in secondRound
             /\ (Decided(c, "true") /\ ValidJustBefore(c)) => ~Steers(c, "completed")
      ]_vars

\* C38: a queued create-call job originates only for an assignment that is
\* still live when the job starts, for every interleaving of create, release,
\* TTL expiry and queue draining.
C38_OriginateOnlyForLiveAssignment ==
    [][ \A job \in StartedJobs :
           createCalls'[job].assignment_uuid \in DOMAIN assignments' ]_vars

\* The job of a createCall request fails in this step.
JobFails(job) ==
    /\ job \notin DOMAIN settled
    /\ job \in DOMAIN settled'
    /\ settled'[job] = "rejected"

\* C40: the session and the CallData record of a call are created only when
\* the originate of its job succeeded; when the job fails no session is
\* registered and no record saved, the request is answered with the error,
\* and the assignment and the usage count of its trunk are left as they were.
C40_FailedOriginateLeavesNoCall ==
    [][ /\ \A job \in DOMAIN createCalls :
              JobFails(job) =>
                 /\ managers' = managers
                 /\ calls' = calls
                 /\ createCalls'[job].status = 500
                 /\ assignments' = assignments
                 /\ trunkUsageCount' = trunkUsageCount
        /\ (managers' # managers \/ calls' # calls) =>
              \E job \in DOMAIN createCalls :
                 /\ createCalls[job].status = 0
                 /\ createCalls'[job].status = 200
                 /\ managers' \ managers = DOMAIN calls' \ DOMAIN calls
      ]_vars

\* A job failed and was answered 500 while its assignment is live and counted
\* and no call exists.
C40_Witness ==
    \E job \in DOMAIN createCalls :
       /\ job \in DOMAIN settled
       /\ settled[job] = "rejected"
       /\ createCalls[job].status = 500
       /\ createCalls[job].assignment_uuid \in DOMAIN assignments
       /\ MapGetOr(trunkUsageCount,
                   assignments[createCalls[job].assignment_uuid].trunk_id, 0) > 0
       /\ managers = {}
       /\ calls = EmptyMap

(***************************************************************************)
(* Properties: WebSocketService, an open socket is the one that is sent to  *)
(***************************************************************************)

\* C39: while a socket attached for a call_id is open, a send for the call_id
\* is delivered on a socket and not put into the pending buffer, and a socket
\* that stays open stays the registered one: the close notification of an
\* older socket of the call_id that was replaced does not unregister it.
C39_OpenSocketReceivesSends ==
    [][ /\ wsReturn' # wsReturn =>
             (OpenSessions(wsReturn'.callId) # {} =>
                 /\ wsReturn'.sent
                 /\ pendingMessages' = pendingMessages)
        /\ \A c \in CallIds :
             \A ws \in OpenSessions(c) :
                (c \in DOMAIN connections /\ connections[c] = ws /\ sockets'[ws] = sockets[ws])
                   => (c \in DOMAIN connections' /\ connections'[c] = ws)
      ]_vars

====
